---- MODULE Spec2Model ----
(***************************************************************************)
(* Verification model of the adaptive JIT layer of dcrawl/miniscript:      *)
(* the expression fingerprinter and profiler (ExpressionProfiler.h), the   *)
(* compiled-region cache and the dispatcher (RuntimeJIT.cpp), the template *)
(* expression JIT (SimpleExpressionJIT.cpp) and the type specializer       *)
(* (SpecializedInstructions.cpp).                                          *)
(***************************************************************************)
EXTENDS Integers, Sequences, FiniteSets, TLC

VARIABLES
    var_map,                  \* ExpressionFingerprinter::normalizeVariable static var_map
    next_var_id,              \* ExpressionFingerprinter::normalizeVariable static next_var_id
    calls,                    \* log of the fingerprint calls made: <<instructions, result>>
    profiles,                 \* ExpressionProfiler::profiles
    thresholds,               \* ExpressionProfiler::thresholds
    total_profiles,           \* ExpressionProfiler counters
    jit_candidates,
    successful_compilations,
    failed_compilations,
    threshold_updates,        \* number of updateThresholds calls that adjusted
    compiledRegions_,         \* RuntimeJIT::compiledRegions_
    next_function,            \* the next llvm::Function generateFunction creates
    stats_,                   \* RuntimeJIT::stats_ (the counters)
    cache_epoch,              \* number of times compiledRegions_ was cleared
    pc,                       \* per thread: where its RuntimeJIT call stands
    frame,                    \* per thread: the locals of the call in flight
    ret,                      \* per thread: what its last call returned
    compiled_cache,           \* SimpleExpressionJIT::compiled_cache
    last_eval,                \* the last compileExpression or compiled call and what it returned
    total_operations,         \* SpecializingTACProcessor::total_operations
    specialized_operations,   \* SpecializingTACProcessor::specialized_operations
    last_specialization,      \* what trySpecializeOperation last decided
    last_evaluation,          \* the last specialized and generic evaluation
    lineNum,                  \* Context::lineNum of the machine's context
    instructionCounts_,       \* JITMachine::instructionCounts_
    totalInstructions,        \* RuntimeJIT::stats_.totalInstructions
    jitEnabled_,              \* JITMachine::jitEnabled_
    executed,                 \* the lines DoOneLine was called for, in order
    should_compile,           \* what the last shouldCompile call returned
    priority,                 \* what the last getPriority call returned
    rec_pc,                   \* per thread: where its recordExecution call stands
    rec_frame,                \* per thread: the locals of that call
    completed,                \* the recordExecution calls that returned: count, time
    clear_calls,              \* number of ClearJITCache calls that returned
    profile_,                 \* JITMachine::profile_ (JITMachine.cpp), for the one context
    compile_attempt,          \* the last window handed to CompileContextRange
    mTable,                   \* DictionaryStorage::mTable: per bin, the chain from its head
    mSize,                    \* DictionaryStorage::mSize
    mTableSize                \* DictionaryStorage::mTableSize

fpVars == <<var_map, next_var_id, calls>>
profVars == <<profiles, thresholds, total_profiles, jit_candidates,
              successful_compilations, failed_compilations, threshold_updates>>
cacheVars == <<compiledRegions_, next_function, stats_, cache_epoch, pc, frame, ret>>
exprVars == <<compiled_cache, last_eval>>
specializerVars == <<total_operations, specialized_operations, last_specialization,
                     last_evaluation>>
machineVars == <<lineNum, instructionCounts_, totalInstructions, jitEnabled_, executed>>
queryVars == <<should_compile, priority>>
callerVars == <<rec_pc, rec_frame, completed>>
clearVars == <<clear_calls>>
hotPathVars == <<profile_, compile_attempt>>
dictVars == <<mTable, mSize, mTableSize>>
vars == <<fpVars, profVars, cacheVars, exprVars, specializerVars, machineVars, queryVars,
                      callerVars, clearVars, hotPathVars,
                      dictVars>>
outsideProfiler == <<cacheVars, exprVars, specializerVars, machineVars, queryVars,
                      callerVars, clearVars, hotPathVars,
                      dictVars>>
outsideCache == <<fpVars, profVars, exprVars, specializerVars, machineVars, queryVars,
                      callerVars, clearVars, hotPathVars,
                      dictVars>>
outsideExpr == <<fpVars, profVars, cacheVars, specializerVars, machineVars, queryVars,
                      callerVars, clearVars, hotPathVars,
                      dictVars>>
outsideSpecializer == <<fpVars, profVars, cacheVars, exprVars, machineVars, queryVars,
                      callerVars, clearVars, hotPathVars,
                      dictVars>>
outsideMachine == <<fpVars, profVars, cacheVars, exprVars, specializerVars, queryVars,
                   callerVars, clearVars, hotPathVars,
                      dictVars>>
outsideQuery == <<cacheVars, exprVars, specializerVars, machineVars, callerVars,
                  clearVars, hotPathVars,
                      dictVars>>
outsideCallers == <<cacheVars, exprVars, specializerVars, machineVars, queryVars,
                    clearVars, hotPathVars,
                      dictVars>>
outsideDictionary == <<fpVars, profVars, cacheVars, exprVars, specializerVars,
                       machineVars, queryVars, callerVars, clearVars, hotPathVars>>

(***************************************************************************)
(* Bounds of the model.                                                    *)
(***************************************************************************)
MaxCalls == 3
MaxColdCount == 1
MaxWarmCalls == 2
MaxJitExec == 1
MaxCompilations == 1
MaxRecompilations == 2
MaxDictSize == 192
MaxUpdates == 1
MaxFunctions == 2
MaxExecutions == 1
MaxClears == 1
MaxOperations == 2
MaxHistory == 30
DoubleDigits == 3
MaxProfiledSteps == 70

(***************************************************************************)
(* Exact rational arithmetic standing for the C++ doubles: <<n, d>>, d > 0 *)
(***************************************************************************)
RECURSIVE Gcd(_, _)
Gcd(a, b) == IF b = 0 THEN a ELSE Gcd(b, a % b)

Abs(x) == IF x < 0 THEN -x ELSE x

Rat(n, d) == LET g == Gcd(Abs(n), Abs(d))
                 s == IF d < 0 THEN -1 ELSE 1
             IN <<(s * n) \div g, (s * d) \div g>>

RInt(n) == <<n, 1>>
RAdd(x, y) == LET g == Gcd(x[2], y[2])
              IN Rat(x[1] * (y[2] \div g) + y[1] * (x[2] \div g), (x[2] \div g) * y[2])
RMul(x, y) == LET g1 == Gcd(Abs(x[1]), y[2])
                  g2 == Gcd(Abs(y[1]), x[2])
              IN Rat((x[1] \div g1) * (y[1] \div g2), (x[2] \div g2) * (y[2] \div g1))
RDiv(x, y) == RMul(x, IF y[1] < 0 THEN <<-y[2], -y[1]>> ELSE <<y[2], y[1]>>)
RLt(x, y) == LET g == Gcd(x[2], y[2])
             IN x[1] * (y[2] \div g) < y[1] * (x[2] \div g)
RGt(x, y) == RLt(y, x)
RMax(x, y) == IF RLt(x, y) THEN y ELSE x
RMin(x, y) == IF RLt(y, x) THEN y ELSE x

(***************************************************************************)
(* SimpleTACLine (MiniScriptJIT.cpp / ProfilerTest.cpp).  constant_value   *)
(* is held in tenths (25 is 2.5); an absent operand is the empty string.   *)
(***************************************************************************)
ASSIGN == 0
ADD == 1
SUB == 2
MUL == 3
DIV == 4
POW == 5
LOAD_CONST == 6
LOAD_VAR == 7

SimpleTACLine(op, res, a, b, val) ==
    [operation |-> op, result |-> res, operandA |-> a, operandB |-> b,
     constant_value |-> val]

\* SimpleExpression::createSimple: result = a + b * 2.5
createSimple == <<SimpleTACLine(LOAD_CONST, "temp_const", "", "", 25),
                  SimpleTACLine(MUL, "temp_mul", "b", "temp_const", 0),
                  SimpleTACLine(ADD, "result", "a", "temp_mul", 0)>>

(***************************************************************************)
(* ExpressionFingerprinter                                                 *)
(***************************************************************************)
RECURSIVE Digits(_)
\* std::to_string / operator<< of a non-negative integer, as character codes
Digits(n) == IF n < 10 THEN <<48 + n>> ELSE Digits(n \div 10) \o <<48 + (n % 10)>>

\* operator<<(double) for a non-negative value with one decimal digit
PrintDouble(c) == IF c % 10 = 0 THEN Digits(c \div 10)
                  ELSE Digits(c \div 10) \o <<46, 48 + (c % 10)>>

\* width of the modelled std::hash<std::string> result
HashMod == 16777216

RECURSIVE HashRange(_, _, _, _)
\* h carried over the characters s[lo..hi] in order, the left half first
HashRange(s, lo, hi, h) ==
    IF lo > hi THEN h
    ELSE IF lo = hi THEN (h * 31 + s[lo]) % HashMod
    ELSE CHOOSE r \in {HashRange(s, ((lo + hi) \div 2) + 1, hi, x) :
                          x \in {HashRange(s, lo, (lo + hi) \div 2, h)}} : TRUE

HashFrom(s, i, h) == HashRange(s, i, Len(s), h)

\* std::hash<std::string>: a fixed, unseeded hash of the characters
hasher(s) == CHOOSE h \in {HashFrom(chars, 1, 7) : chars \in {s}} : TRUE

\* normalizeVariable: the function-local statics var_map / next_var_id are
\* passed in and returned in st.
normalizeVariable(var, st) ==
    IF var \in DOMAIN st.var_map
    THEN [str |-> <<118>> \o Digits(st.var_map[var]), st |-> st]
    ELSE [str |-> <<118>> \o Digits(st.next_var_id),
          st |-> [var_map |-> [v \in DOMAIN st.var_map \cup {var} |->
                                  IF v = var THEN st.next_var_id ELSE st.var_map[v]],
                  next_var_id |-> st.next_var_id + 1]]

\* the body of the for loop of fingerprint for one instruction
fingerprintInstr(instr, acc) ==
    LET s0 == acc.ss \o Digits(instr.operation) \o <<58>>
        rA == IF instr.operandA # "" THEN normalizeVariable(instr.operandA, acc.st)
              ELSE [str |-> <<>>, st |-> acc.st]
        s1 == IF instr.operandA # "" THEN s0 \o rA.str \o <<44>> ELSE s0
        rB == IF instr.operandB # "" THEN normalizeVariable(instr.operandB, rA.st)
              ELSE [str |-> <<>>, st |-> rA.st]
        s2 == IF instr.operandB # "" THEN s1 \o rB.str \o <<44>> ELSE s1
        s3 == IF instr.operation = LOAD_CONST
              THEN s2 \o PrintDouble(instr.constant_value) \o <<44>> ELSE s2
    IN [ss |-> s3 \o <<59>>, st |-> rB.st]

RECURSIVE fingerprintLoop(_, _, _)
fingerprintLoop(instructions, i, acc) ==
    IF i > Len(instructions) THEN acc
    ELSE CHOOSE r \in {fingerprintLoop(instructions, i + 1, a) :
                          a \in {fingerprintInstr(instructions[i], acc)}} : TRUE

\* fingerprint: returns the hash and the statics as the call leaves them
fingerprint(instructions, st) ==
    LET r == fingerprintLoop(instructions, 1, [ss |-> <<>>, st |-> st])
    IN [hash |-> hasher(r.ss), st |-> r.st]

RECURSIVE calculateDepthLoop(_, _, _, _)
calculateDepthLoop(instructions, i, var_depths, max_depth) ==
    IF i > Len(instructions) THEN max_depth
    ELSE LET instr == instructions[i]
             dA == IF instr.operandA # "" /\ instr.operandA \in DOMAIN var_depths
                   THEN IF var_depths[instr.operandA] + 1 > 1
                        THEN var_depths[instr.operandA] + 1 ELSE 1
                   ELSE 1
             dB == IF instr.operandB # "" /\ instr.operandB \in DOMAIN var_depths
                   THEN IF var_depths[instr.operandB] + 1 > dA
                        THEN var_depths[instr.operandB] + 1 ELSE dA
                   ELSE dA
             vd == [v \in DOMAIN var_depths \cup {instr.result} |->
                       IF v = instr.result THEN dB ELSE var_depths[v]]
         IN calculateDepthLoop(instructions, i + 1, vd,
                               IF dB > max_depth THEN dB ELSE max_depth)

calculateDepth(instructions) == calculateDepthLoop(instructions, 1, <<>>, 0)

analyzeComplexity(instructions) ==
    [operation_count |-> Len(instructions),
     depth |-> calculateDepth(instructions),
     has_complex_ops |-> \E i \in 1..Len(instructions) : instructions[i].operation = POW]

(***************************************************************************)
(* CompilationThresholds                                                   *)
(***************************************************************************)
CompilationThresholds ==
    [min_execution_count |-> 1000,
     min_execution_frequency |-> RInt(100),
     min_avg_execution_time_ns |-> RInt(10000),
     max_complexity |-> 50,
     success_rate |-> RInt(0),
     average_speedup |-> RInt(0)]

alpha == <<1, 10>>

Max(a, b) == IF a > b THEN a ELSE b
Min(a, b) == IF a < b THEN a ELSE b

\* long division: <<floor(rem * 10^k / d), the remainder left>>
RECURSIVE FractionDigits(_, _, _)
FractionDigits(rem, d, k) ==
    IF k = 0 THEN <<0, rem>>
    ELSE LET prev == CHOOSE x \in {FractionDigits(rem, d, k - 1)} : TRUE
         IN <<prev[1] * 10 + (prev[2] * 10) \div d, (prev[2] * 10) % d>>

RECURSIVE Pow10(_)
Pow10(k) == IF k = 0 THEN 1 ELSE 10 * Pow10(k - 1)

\* a double keeps DoubleDigits decimal digits after the point: every value
\* of type double is rounded to the nearest such number, as the machine
\* rounds it to the nearest double
RoundDouble(r) ==
    LET q == r[1] \div r[2]
        f == CHOOSE x \in {FractionDigits(r[1] % r[2], r[2], DoubleDigits)} : TRUE
        up == IF 2 * f[2] >= r[2] THEN 1 ELSE 0
    IN RAdd(RInt(q), Rat(f[1] + up, Pow10(DoubleDigits)))

\* adjustThresholds; static_cast<uint64_t>(n * 0.9) and (n * 1.1) truncate
adjustThresholds_Unclamped(th, recent_success_rate, recent_speedup) ==
    LET sr == RoundDouble(
                 RAdd(RMul(alpha, RoundDouble(recent_success_rate)),
                      RMul(RAdd(RInt(1), <<-alpha[1], alpha[2]>>), th.success_rate)))
        sp == RoundDouble(
                 RAdd(RMul(alpha, RoundDouble(recent_speedup)),
                      RMul(RAdd(RInt(1), <<-alpha[1], alpha[2]>>), th.average_speedup)))
        t1 == [th EXCEPT !.success_rate = sr, !.average_speedup = sp]
    IN IF RGt(sr, <<8, 10>>) /\ RGt(sp, RInt(2))
       THEN [t1 EXCEPT
               !.min_execution_count = (th.min_execution_count * 9) \div 10,
               !.min_execution_frequency =
                   RoundDouble(RMul(th.min_execution_frequency, <<9, 10>>))]
       ELSE IF RLt(sr, <<5, 10>>) \/ RLt(sp, <<12, 10>>)
       THEN [t1 EXCEPT
               !.min_execution_count = (th.min_execution_count * 11) \div 10,
               !.min_execution_frequency =
                   RoundDouble(RMul(th.min_execution_frequency, <<11, 10>>))]
       ELSE t1
adjustThresholds_LowersOnSpeedup(th, recent_success_rate, recent_speedup) ==
    LET sr == RoundDouble(
                 RAdd(RMul(alpha, RoundDouble(recent_success_rate)),
                      RMul(RAdd(RInt(1), <<-alpha[1], alpha[2]>>), th.success_rate)))
        sp == RoundDouble(
                 RAdd(RMul(alpha, RoundDouble(recent_speedup)),
                      RMul(RAdd(RInt(1), <<-alpha[1], alpha[2]>>), th.average_speedup)))
        t1 == [th EXCEPT !.success_rate = sr, !.average_speedup = sp]
    IN IF RGt(sp, RInt(2))
       THEN [t1 EXCEPT
               !.min_execution_count = Max(500, (th.min_execution_count * 9) \div 10),
               !.min_execution_frequency =
                   RoundDouble(RMax(RInt(50),
                                    RMul(th.min_execution_frequency, <<9, 10>>)))]
       ELSE IF RLt(sr, <<5, 10>>) \/ RLt(sp, <<12, 10>>)
       THEN [t1 EXCEPT
               !.min_execution_count = Min(5000, (th.min_execution_count * 11) \div 10),
               !.min_execution_frequency =
                   RoundDouble(RMin(RInt(500),
                                    RMul(th.min_execution_frequency, <<11, 10>>)))]
       ELSE t1
\* an update that replaces the smoothed metrics by the observed ones
adjustThresholds_NoSmoothing(th, recent_success_rate, recent_speedup) ==
    LET sr == RoundDouble(recent_success_rate)
        sp == RoundDouble(recent_speedup)
        t1 == [th EXCEPT !.success_rate = sr, !.average_speedup = sp]
    IN IF RGt(sr, <<8, 10>>) /\ RGt(sp, RInt(2))
       THEN [t1 EXCEPT
               !.min_execution_count = Max(500, (th.min_execution_count * 9) \div 10),
               !.min_execution_frequency =
                   RoundDouble(RMax(RInt(50),
                                    RMul(th.min_execution_frequency, <<9, 10>>)))]
       ELSE IF RLt(sr, <<5, 10>>) \/ RLt(sp, <<12, 10>>)
       THEN [t1 EXCEPT
               !.min_execution_count = Min(5000, (th.min_execution_count * 11) \div 10),
               !.min_execution_frequency =
                   RoundDouble(RMin(RInt(500),
                                    RMul(th.min_execution_frequency, <<11, 10>>)))]
       ELSE t1
adjustThresholds(th, recent_success_rate, recent_speedup) ==
    LET sr == RoundDouble(
                 RAdd(RMul(alpha, RoundDouble(recent_success_rate)),
                      RMul(RAdd(RInt(1), <<-alpha[1], alpha[2]>>), th.success_rate)))
        sp == RoundDouble(
                 RAdd(RMul(alpha, RoundDouble(recent_speedup)),
                      RMul(RAdd(RInt(1), <<-alpha[1], alpha[2]>>), th.average_speedup)))
        t1 == [th EXCEPT !.success_rate = sr, !.average_speedup = sp]
    IN IF RGt(sr, <<8, 10>>) /\ RGt(sp, RInt(2))
       THEN [t1 EXCEPT
               !.min_execution_count = Max(500, (th.min_execution_count * 9) \div 10),
               !.min_execution_frequency =
                   RoundDouble(RMax(RInt(50),
                                    RMul(th.min_execution_frequency, <<9, 10>>)))]
       ELSE IF RLt(sr, <<5, 10>>) \/ RLt(sp, <<12, 10>>)
       THEN [t1 EXCEPT
               !.min_execution_count = Min(5000, (th.min_execution_count * 11) \div 10),
               !.min_execution_frequency =
                   RoundDouble(RMin(RInt(500),
                                    RMul(th.min_execution_frequency, <<11, 10>>)))]
       ELSE t1

\* the thresholds after n adjustThresholds calls that were all given the
\* same recent success rate and speedup
RECURSIVE thresholdsAfter(_, _, _)
thresholdsAfter(n, recent_success_rate, recent_speedup) ==
    IF n = 0 THEN CompilationThresholds
    ELSE CHOOSE t \in {adjustThresholds(prev, recent_success_rate, recent_speedup) :
                          prev \in {thresholdsAfter(n - 1, recent_success_rate,
                                                    recent_speedup)}} : TRUE

(***************************************************************************)
(* ExpressionProfile                                                       *)
(***************************************************************************)
NOT_ANALYZED == "NOT_ANALYZED"
INTERPRETER_ONLY == "INTERPRETER_ONLY"
JIT_CANDIDATE == "JIT_CANDIDATE"
JIT_COMPILED == "JIT_COMPILED"
JIT_FAILED == "JIT_FAILED"

\* a default-constructed ExpressionProfile with its complexity filled in
ExpressionProfile(cx) ==
    [execution_count |-> 0, total_execution_time_ns |-> 0, last_execution_time |-> 0,
     operation_count |-> cx.operation_count, depth |-> cx.depth,
     has_complex_ops |-> cx.has_complex_ops,
     status |-> NOT_ANALYZED, compilation_time_ns |-> 0,
     jit_execution_count |-> 0, jit_total_time_ns |-> 0]

getAverageExecutionTime(p) ==
    IF p.execution_count = 0 THEN RInt(0)
    ELSE Rat(p.total_execution_time_ns, p.execution_count)

\* getExecutionFrequency; time_window is now - last_execution_time, where
\* now is what the clock reads at the call
getExecutionFrequency(p, time_window) ==
    IF p.last_execution_time = 0 THEN RInt(0)
    ELSE IF time_window = 0 THEN RInt(0)
    ELSE LET g == Gcd(1000000000, time_window)
         IN Rat(p.execution_count * (1000000000 \div g), time_window \div g)

\* a candidacy test without the complexity limit
analyzeForCompilation_IgnoresComplexity(p, th, time_window) ==
    LET count == p.execution_count
        freq == getExecutionFrequency(p, time_window)
        avg_time == getAverageExecutionTime(p)
    IN IF count < th.min_execution_count THEN p.status
       ELSE IF RLt(freq, th.min_execution_frequency) THEN INTERPRETER_ONLY
       ELSE IF RLt(avg_time, th.min_avg_execution_time_ns) THEN INTERPRETER_ONLY
       ELSE JIT_CANDIDATE

\* analyzeForCompilation: the new status and whether jit_candidates grows
analyzeForCompilation(p, th, time_window) ==
    LET count == p.execution_count
        freq == getExecutionFrequency(p, time_window)
        avg_time == getAverageExecutionTime(p)
    IN IF count < th.min_execution_count THEN p.status
       ELSE IF RLt(freq, th.min_execution_frequency) THEN INTERPRETER_ONLY
       ELSE IF RLt(avg_time, th.min_avg_execution_time_ns) THEN INTERPRETER_ONLY
       ELSE IF p.operation_count > th.max_complexity THEN INTERPRETER_ONLY
       ELSE JIT_CANDIDATE

(***************************************************************************)
(* Inputs of the profiler operations                                       *)
(***************************************************************************)
exprAddXY == <<SimpleTACLine(ADD, "r", "x", "y", 0)>>
ProfExprs == {createSimple, exprAddXY}
Durations == {5000, 15000}           \* interpreted execution_time_ns
JitDurations == {3000}               \* compiled execution_time_ns
CompileTimes == {5000000}            \* compilation_time_ns
Timestamps == {1}                    \* clock readings stored by recordExecution
Windows == {0, 1000000, 2100000000}  \* ns between two clock readings

statics == [var_map |-> var_map, next_var_id |-> next_var_id]

\* the last execution count at which the candidacy test has not yet run
WarmCount == CompilationThresholds.min_execution_count - 1
MaxExecCount == WarmCount + MaxWarmCalls

\* the counts the model enumerates: the first calls, and those around the threshold
CountInRange(n) == n < MaxColdCount \/ (n >= WarmCount /\ n < MaxExecCount)

(***************************************************************************)
(* ExpressionProfiler operations                                           *)
(***************************************************************************)
\* recordExecution, preceded by a variant that runs the test on every call
recordExecution_AlwaysAnalyzes(expr, execution_time_ns, now, time_window) ==
    \E r \in {fingerprint(expr, statics)} :
    \* getOrCreateProfile
    \E p0 \in {IF r.hash \in DOMAIN profiles THEN profiles[r.hash]
                ELSE ExpressionProfile(analyzeComplexity(expr))} :
    \E p1 \in {[p0 EXCEPT !.execution_count = @ + 1,
                          !.total_execution_time_ns = @ + execution_time_ns,
                          !.last_execution_time = now]} :
    \E st \in {analyzeForCompilation(p1, thresholds, time_window)} :
       /\ CountInRange(p0.execution_count)
       /\ var_map' = r.st.var_map
       /\ next_var_id' = r.st.next_var_id
       /\ profiles' = [f \in DOMAIN profiles \cup {r.hash} |->
                          IF f = r.hash THEN [p1 EXCEPT !.status = st] ELSE profiles[f]]
       /\ total_profiles' = IF r.hash \in DOMAIN profiles THEN total_profiles
                             ELSE total_profiles + 1
       /\ jit_candidates' = IF st = JIT_CANDIDATE
                             THEN jit_candidates + 1 ELSE jit_candidates
       /\ UNCHANGED <<calls, thresholds, successful_compilations, failed_compilations,
                      threshold_updates>>
       /\ UNCHANGED outsideProfiler
recordExecution(expr, execution_time_ns, now, time_window) ==
    \E r \in {fingerprint(expr, statics)} :
    \* getOrCreateProfile
    \E p0 \in {IF r.hash \in DOMAIN profiles THEN profiles[r.hash]
                ELSE ExpressionProfile(analyzeComplexity(expr))} :
    \E p1 \in {[p0 EXCEPT !.execution_count = @ + 1,
                          !.total_execution_time_ns = @ + execution_time_ns,
                          !.last_execution_time = now]} :
    \E st \in {IF p1.status = NOT_ANALYZED
                THEN analyzeForCompilation(p1, thresholds, time_window)
                ELSE p1.status} :
       /\ CountInRange(p0.execution_count)
       /\ var_map' = r.st.var_map
       /\ next_var_id' = r.st.next_var_id
       /\ profiles' = [f \in DOMAIN profiles \cup {r.hash} |->
                          IF f = r.hash THEN [p1 EXCEPT !.status = st] ELSE profiles[f]]
       /\ total_profiles' = IF r.hash \in DOMAIN profiles THEN total_profiles
                             ELSE total_profiles + 1
       /\ jit_candidates' = IF p1.status = NOT_ANALYZED /\ st = JIT_CANDIDATE
                             THEN jit_candidates + 1 ELSE jit_candidates
       /\ UNCHANGED <<calls, thresholds, successful_compilations, failed_compilations,
                      threshold_updates>>
       /\ UNCHANGED outsideProfiler

\* recordCompilation while fewer than limit compilations have been counted
recordCompilationUpTo(limit, expr, success, compilation_time_ns) ==
    \E r \in {fingerprint(expr, statics)} :
    LET found == r.hash \in DOMAIN profiles
    IN /\ found => successful_compilations + failed_compilations < limit
       /\ var_map' = r.st.var_map
       /\ next_var_id' = r.st.next_var_id
       /\ profiles' = IF ~found THEN profiles
                      ELSE [profiles EXCEPT ![r.hash] =
                               [@ EXCEPT !.compilation_time_ns = compilation_time_ns,
                                         !.status = IF success THEN JIT_COMPILED
                                                    ELSE JIT_FAILED]]
       /\ successful_compilations' = IF found /\ success
                                      THEN successful_compilations + 1
                                      ELSE successful_compilations
       /\ failed_compilations' = IF found /\ ~success
                                  THEN failed_compilations + 1
                                  ELSE failed_compilations
       /\ UNCHANGED <<calls, thresholds, total_profiles, jit_candidates, threshold_updates>>
       /\ UNCHANGED outsideProfiler

recordCompilation(expr, success, compilation_time_ns) ==
    recordCompilationUpTo(MaxCompilations, expr, success, compilation_time_ns)

recordJITExecution(expr, execution_time_ns) ==
    \E r \in {fingerprint(expr, statics)} :
    LET found == r.hash \in DOMAIN profiles
    IN /\ found => profiles[r.hash].jit_execution_count < MaxJitExec
       /\ var_map' = r.st.var_map
       /\ next_var_id' = r.st.next_var_id
       /\ profiles' = IF ~found THEN profiles
                      ELSE [profiles EXCEPT ![r.hash] =
                               [@ EXCEPT !.jit_execution_count = @ + 1,
                                         !.jit_total_time_ns = @ + execution_time_ns]]
       /\ UNCHANGED <<calls, thresholds, total_profiles, jit_candidates,
                      successful_compilations, failed_compilations, threshold_updates>>
       /\ UNCHANGED outsideProfiler

\* shouldCompile: true only for a profile that exists and is a candidate
NoAnswer == [called |-> FALSE]
InitQuery == should_compile = NoAnswer /\ priority = NoAnswer
shouldCompile_AnyDecided(expr) ==
    \E r \in {fingerprint(expr, statics)} :
       /\ var_map' = r.st.var_map
       /\ next_var_id' = r.st.next_var_id
       /\ should_compile' =
             [called |-> TRUE, expr |-> expr,
              result |-> IF r.hash \notin DOMAIN profiles THEN FALSE
                         ELSE profiles[r.hash].status # NOT_ANALYZED]
       /\ UNCHANGED <<calls, profVars, priority>>
       /\ UNCHANGED outsideQuery
shouldCompile(expr) ==
    \E r \in {fingerprint(expr, statics)} :
       /\ var_map' = r.st.var_map
       /\ next_var_id' = r.st.next_var_id
       /\ should_compile' =
             [called |-> TRUE, expr |-> expr,
              result |-> IF r.hash \notin DOMAIN profiles THEN FALSE
                         ELSE profiles[r.hash].status = JIT_CANDIDATE]
       /\ UNCHANGED <<calls, profVars, priority>>
       /\ UNCHANGED outsideQuery

\* CompilationPriority
VERY_LOW == 0
LOW == 1
MEDIUM == 2
HIGH == 3
VERY_HIGH == 4

\* twice the score getPriority gives a profile
priorityScore2(p, time_window) ==
    LET freq == getExecutionFrequency(p, time_window)
        avg_time == getAverageExecutionTime(p)
        count == p.execution_count
    IN (IF RGt(freq, RInt(1000)) THEN 4
        ELSE IF RGt(freq, RInt(500)) THEN 3
        ELSE IF RGt(freq, RInt(100)) THEN 2 ELSE 0)
       + (IF RGt(avg_time, RInt(100000)) THEN 4
          ELSE IF RGt(avg_time, RInt(50000)) THEN 3
          ELSE IF RGt(avg_time, RInt(10000)) THEN 2 ELSE 0)
       + (IF count > 10000 THEN 4
          ELSE IF count > 5000 THEN 3
          ELSE IF count > 1000 THEN 2 ELSE 0)
       + (IF p.operation_count >= 3 /\ p.operation_count <= 20 THEN 2 ELSE 0)
       + (IF p.has_complex_ops THEN 1 ELSE 0)

priorityOf(score2) ==
    IF score2 >= 12 THEN VERY_HIGH
    ELSE IF score2 >= 8 THEN HIGH
    ELSE IF score2 >= 4 THEN MEDIUM
    ELSE IF score2 >= 2 THEN LOW
    ELSE VERY_LOW

\* getPriority; time_window is now - last_execution_time at the call
getPriority_UnseenIsLow(expr, time_window) ==
    \E r \in {fingerprint(expr, statics)} :
       /\ var_map' = r.st.var_map
       /\ next_var_id' = r.st.next_var_id
       /\ priority' =
             [called |-> TRUE, expr |-> expr,
              result |-> IF r.hash \notin DOMAIN profiles THEN LOW
                         ELSE priorityOf(priorityScore2(profiles[r.hash], time_window))]
       /\ UNCHANGED <<calls, profVars, should_compile>>
       /\ UNCHANGED outsideQuery
getPriority(expr, time_window) ==
    \E r \in {fingerprint(expr, statics)} :
       /\ var_map' = r.st.var_map
       /\ next_var_id' = r.st.next_var_id
       /\ priority' =
             [called |-> TRUE, expr |-> expr,
              result |-> IF r.hash \notin DOMAIN profiles THEN VERY_LOW
                         ELSE priorityOf(priorityScore2(profiles[r.hash], time_window))]
       /\ UNCHANGED <<calls, profVars, should_compile>>
       /\ UNCHANGED outsideQuery

\* the profiles that contribute a speedup sample in updateThresholds
SpeedupSamples ==
    {f \in DOMAIN profiles :
        /\ profiles[f].status = JIT_COMPILED
        /\ profiles[f].jit_execution_count > 0
        /\ profiles[f].execution_count > 0
        /\ profiles[f].jit_total_time_ns > 0}

\* a sample that divides the compiled average by the interpreted one
SpeedupOf_Inverted(p) == RDiv(Rat(p.jit_total_time_ns, p.jit_execution_count),
                              getAverageExecutionTime(p))

SpeedupOf(p) == RDiv(getAverageExecutionTime(p),
                     Rat(p.jit_total_time_ns, p.jit_execution_count))

RECURSIVE SumSpeedup(_)
SumSpeedup(S) == IF S = {} THEN RInt(0)
                 ELSE LET f == CHOOSE x \in S : TRUE
                      IN RAdd(SpeedupOf(profiles[f]), SumSpeedup(S \ {f}))

updateThresholds ==
    LET total_attempts == successful_compilations + failed_compilations
        success_rate == Rat(successful_compilations, total_attempts)
        speedup_samples == Cardinality(SpeedupSamples)
        avg_speedup == IF speedup_samples > 0
                       THEN RDiv(SumSpeedup(SpeedupSamples), RInt(speedup_samples))
                       ELSE RInt(1)
    IN /\ threshold_updates < MaxUpdates
       /\ IF total_attempts = 0
          THEN UNCHANGED <<thresholds, threshold_updates>>
          ELSE /\ thresholds' = adjustThresholds(thresholds, success_rate, avg_speedup)
               /\ threshold_updates' = threshold_updates + 1
       /\ UNCHANGED <<fpVars, profiles, total_profiles, jit_candidates,
                      successful_compilations, failed_compilations>>
       /\ UNCHANGED outsideProfiler

(***************************************************************************)
(* ExpressionFingerprinter::fingerprint called on its own                  *)
(***************************************************************************)
FpNames == {"a", "b", "x"}
FpInstrs == {SimpleTACLine(ADD, "r", n1, n2, 0) : n1, n2 \in FpNames}
            \cup {SimpleTACLine(LOAD_CONST, "r", "", "", 25)}
FpSequences == {<<>>} \cup {<<i>> : i \in FpInstrs}
               \cup {<<i, j>> : i \in {SimpleTACLine(LOAD_CONST, "r", "", "", 25)},
                                j \in FpInstrs}

Fingerprint(instructions) ==
    \E r \in {fingerprint(instructions, statics)} :
       /\ Len(calls) < MaxCalls
       /\ var_map' = r.st.var_map
       /\ next_var_id' = r.st.next_var_id
       /\ calls' = Append(calls, [instructions |-> instructions, result |-> r.hash])
       /\ UNCHANGED profVars
       /\ UNCHANGED outsideProfiler

(***************************************************************************)
(* RuntimeJIT: the compiled-region cache (RuntimeJIT.cpp)                  *)
(***************************************************************************)
\* enumerator values of MiniScript's TACLine::Op for the operations used
OpCode == [AssignA |-> 1, APlusB |-> 3, ATimesB |-> 5, CallIntrinsicA |-> 27]

isJITCompilable(op) ==
    op \in {"AssignA", "APlusB", "AMinusB", "ATimesB", "ADividedByB", "AModB", "APowB",
            "AEqualB", "ANotEqualB", "AGreaterThanB", "AGreatOrEqualB", "ALessThanB",
            "ALessOrEqualB", "AAndB", "AOrB", "NotA", "GotoA", "GotoAifB"}

\* the Context objects (by address) and the op of each line of Context::code
Contexts == {"ctxA", "ctxB"}
\* JITConfig::maxInstructionSequence, as default-constructed
maxInstructionSequence == 50
\* a context one line longer than that
LongContext == "ctxLong"
code(context) == IF context = "ctxA" THEN <<"APlusB", "ATimesB">>
                 ELSE IF context = "ctxB" THEN <<"APlusB", "CallIntrinsicA", "ATimesB">>
                 ELSE [i \in 1..(maxInstructionSequence + 1) |-> "AssignA"]
Count(context) == Len(code(context))
Ranges(context) == {<<s, e>> \in (0..(Count(context) - 1)) \X (0..(Count(context) - 1)) :
                       s <= e}
Threads == {1, 2}

\* size_t arithmetic, narrowed to 16 bits
SizeMod == 65536
GoldenRatio == 31161      \* 0x9e3779b9 % SizeMod

RECURSIVE Xor(_, _)
Xor(a, b) == IF a = 0 THEN b
             ELSE IF b = 0 THEN a
             ELSE 2 * Xor(a \div 2, b \div 2) + ((a + b) % 2)

RECURSIVE opHashLoop(_, _, _, _)
opHashLoop(context, i, endLine, opHash) ==
    IF i > endLine \/ i >= Count(context) THEN opHash
    ELSE CHOOSE r \in
            {opHashLoop(context, i + 1, endLine, h) :
                h \in {Xor(opHash, (OpCode[code(context)[i + 1]] + GoldenRatio
                                    + ((opHash * 64) % SizeMod) + (opHash \div 4)) % SizeMod)}} :
            TRUE

\* "ctx_<address>_lines_<start>_<end>_hash_<opHash>": the four fields the
\* string is formatted from, which it determines and is determined by
generateContextFingerprint(context, startLine, endLine) ==
    <<context, startLine, endLine, opHashLoop(context, startLine, endLine, 0)>>

SubList(context, startLine, n) ==
    SubSeq(code(context), startLine + 1, startLine + n)

isCompilableSequence(sequence) ==
    IF Len(sequence) = 0 THEN FALSE
    ELSE \A i \in 1..Len(sequence) : isJITCompilable(sequence[i])

CompiledRegion(function, startLine, endLine, fp) ==
    [function |-> function, startLine |-> startLine, endLine |-> endLine,
     fingerprint |-> fp, executionCount |-> 0]

\* compiledRegions_.find(fingerprint) != compiledRegions_.end()
isAlreadyCompiled_NeverFound(fp) == FALSE
isAlreadyCompiled(fp) == fp \in DOMAIN compiledRegions_

NoFrame == [op |-> "none"]
Returned(t, r) == /\ pc' = [pc EXCEPT ![t] = "idle"]
                  /\ frame' = [frame EXCEPT ![t] = NoFrame]
                  /\ ret' = [ret EXCEPT ![t] = r]

\* compileContextRange up to the end of the first critical section
compileContextRange(t, context, startLine, endLine) ==
    \E fp \in {generateContextFingerprint(context, startLine, endLine)} :
       /\ pc[t] = "idle"
       /\ IF isAlreadyCompiled(fp)
          THEN Returned(t, [op |-> "compile", value |-> TRUE, path |-> "cached"])
          ELSE /\ pc' = [pc EXCEPT ![t] = "generate"]
               /\ frame' = [frame EXCEPT ![t] =
                              [op |-> "compile", context |-> context,
                               startLine |-> startLine, endLine |-> endLine,
                               fingerprint |-> fp]]
               /\ UNCHANGED ret
       /\ UNCHANGED <<compiledRegions_, next_function, stats_, cache_epoch>>
       /\ UNCHANGED outsideCache

\* a generator that records the failed region in the cache
generateFunction_StoresFailure(t, outcome) ==
    LET f == frame[t]
    IN /\ pc[t] = "generate"
       /\ IF ~isCompilableSequence(SubList(f.context, f.startLine,
                                           f.endLine - f.startLine + 1))
          THEN /\ outcome = "none"
               /\ Returned(t, [op |-> "compile", value |-> FALSE,
                               path |-> "not_compilable"])
               /\ UNCHANGED <<next_function, compiledRegions_>>
          ELSE \/ /\ outcome = "function"
                  /\ next_function < MaxFunctions
                  /\ pc' = [pc EXCEPT ![t] = "store"]
                  /\ frame' = [frame EXCEPT ![t] =
                                 f @@ [compiledFunction |-> next_function]]
                  /\ next_function' = next_function + 1
                  /\ UNCHANGED <<ret, compiledRegions_>>
               \/ /\ outcome \in {"nullptr", "exception"}
                  /\ Returned(t, [op |-> "compile", value |-> FALSE, path |-> outcome])
                  /\ compiledRegions_' =
                        [k \in DOMAIN compiledRegions_ \cup {f.fingerprint} |->
                            IF k = f.fingerprint
                            THEN CompiledRegion(-1, f.startLine, f.endLine,
                                                f.fingerprint)
                            ELSE compiledRegions_[k]]
                  /\ UNCHANGED next_function
       /\ UNCHANGED <<stats_, cache_epoch>>
       /\ UNCHANGED outsideCache

\* isCompilableSequence and irGenerator_->generateFunction, outside the lock
generateFunction(t, outcome) ==
    LET f == frame[t]
    IN /\ pc[t] = "generate"
       /\ IF ~isCompilableSequence(SubList(f.context, f.startLine,
                                           f.endLine - f.startLine + 1))
          THEN /\ outcome = "none"
               /\ Returned(t, [op |-> "compile", value |-> FALSE,
                               path |-> "not_compilable"])
               /\ UNCHANGED next_function
          ELSE \/ /\ outcome = "function"
                  /\ next_function < MaxFunctions
                  /\ pc' = [pc EXCEPT ![t] = "store"]
                  /\ frame' = [frame EXCEPT ![t] =
                                 f @@ [compiledFunction |-> next_function]]
                  /\ next_function' = next_function + 1
                  /\ UNCHANGED ret
               \/ /\ outcome \in {"nullptr", "exception"}
                  /\ Returned(t, [op |-> "compile", value |-> FALSE, path |-> outcome])
                  /\ UNCHANGED next_function
       /\ UNCHANGED <<compiledRegions_, stats_, cache_epoch>>
       /\ UNCHANGED outsideCache

\* compileContextRange: the second critical section
storeRegion(t) ==
    LET f == frame[t]
    IN /\ pc[t] = "store"
       /\ compiledRegions_' =
             [k \in DOMAIN compiledRegions_ \cup {f.fingerprint} |->
                 IF k = f.fingerprint
                 THEN CompiledRegion(f.compiledFunction, f.startLine, f.endLine,
                                     f.fingerprint)
                 ELSE compiledRegions_[k]]
       /\ stats_' = [stats_ EXCEPT !.jitCompiledInstructions =
                                      @ + (f.endLine - f.startLine + 1)]
       /\ Returned(t, [op |-> "compile", value |-> TRUE, path |-> "compiled"])
       /\ UNCHANGED <<next_function, cache_epoch>>
       /\ UNCHANGED outsideCache

cleanupCompiledRegions ==
    /\ cache_epoch < MaxClears
    /\ compiledRegions_' = <<>>
    /\ cache_epoch' = cache_epoch + 1
    /\ UNCHANGED <<next_function, stats_, pc, frame, ret>>
    /\ UNCHANGED outsideCache

\* executeJITOrFallback: the search for the largest covering region, under the lock
executeJITOrFallback(t, context, currentLine) ==
    LET covering == {k \in DOMAIN compiledRegions_ :
                        /\ currentLine >= compiledRegions_[k].startLine
                        /\ currentLine <= compiledRegions_[k].endLine}
        span(k) == compiledRegions_[k].endLine - compiledRegions_[k].startLine
        largest == {k \in covering : \A j \in covering : span(j) <= span(k)}
    IN /\ pc[t] = "idle"
       /\ stats_.jitExecutions + stats_.interpreterExecutions < MaxExecutions
       /\ IF covering = {}
          THEN /\ stats_' = [stats_ EXCEPT !.interpreterExecutions = @ + 1]
               /\ Returned(t, [op |-> "execute", value |-> FALSE, path |-> "fallback",
                               currentLine |-> currentLine])
          ELSE \* the first region of maximal span in the map's iteration order
               \E bestFingerprint \in largest :
                  /\ pc' = [pc EXCEPT ![t] = "execute"]
                  /\ frame' = [frame EXCEPT ![t] =
                                 [op |-> "execute", context |-> context,
                                  currentLine |-> currentLine,
                                  bestFingerprint |-> bestFingerprint,
                                  epoch |-> cache_epoch]]
                  /\ UNCHANGED <<stats_, ret>>
       /\ UNCHANGED <<compiledRegions_, next_function, cache_epoch>>
       /\ UNCHANGED outsideCache

\* a dispatcher that leaves the instruction pointer where it was
executeCompiledFunction_KeepsLine(t, stale) ==
    LET f == frame[t]
    IN /\ pc[t] = "execute"
       /\ stats_' = [stats_ EXCEPT !.jitExecutions = @ + 1]
       /\ stale = f.currentLine
       /\ Returned(t, [op |-> "execute", value |-> TRUE, path |-> "compiled",
                       currentLine |-> f.currentLine])
       /\ UNCHANGED <<compiledRegions_, next_function, cache_epoch>>
       /\ UNCHANGED outsideCache

\* executeJITOrFallback after the search: bestRegion is used outside the lock
executeCompiledFunction(t, stale) ==
    LET f == frame[t]
    IN /\ pc[t] = "execute"
       /\ stats_' = [stats_ EXCEPT !.jitExecutions = @ + 1]
       /\ IF f.epoch = cache_epoch
          THEN /\ stale = compiledRegions_[f.bestFingerprint].endLine
               /\ compiledRegions_' = [compiledRegions_ EXCEPT
                                          ![f.bestFingerprint].executionCount = @ + 1]
               /\ Returned(t, [op |-> "execute", value |-> TRUE, path |-> "compiled",
                               currentLine |->
                                  compiledRegions_[f.bestFingerprint].endLine + 1])
          ELSE \* the map was cleared: bestRegion dangles and any endLine may be read
               /\ Returned(t, [op |-> "execute", value |-> TRUE, path |-> "dangling",
                               currentLine |-> stale + 1])
               /\ UNCHANGED compiledRegions_
       /\ UNCHANGED <<next_function, cache_epoch>>
       /\ UNCHANGED outsideCache

Lines == 0..2
GenerateOutcomes == {"none", "function", "nullptr", "exception"}

InitCache ==
    /\ compiledRegions_ = <<>>
    /\ next_function = 0
    /\ stats_ = [jitCompiledInstructions |-> 0, jitExecutions |-> 0,
                 interpreterExecutions |-> 0]
    /\ cache_epoch = 0
    /\ pc = [t \in Threads |-> "idle"]
    /\ frame = [t \in Threads |-> NoFrame]
    /\ ret = [t \in Threads |-> NoFrame]

(***************************************************************************)
(* SimpleExpressionJIT.cpp: the expression tree, its interpreter and the   *)
(* template-compiled evaluator.  A double is <<n, d>>: a rational when     *)
(* d > 0, -0.0 when <<0, -1>>, an infinity when d = 0 and NaN when <<0, 0>> *)
(***************************************************************************)
NaN == <<0, 0>>
PosInf == <<1, 0>>
PosZero == <<0, 1>>
NegZero == <<0, -1>>
One == <<1, 1>>
IsNaN(x) == x = NaN
IsInf(x) == x[2] = 0 /\ x[1] # 0
IsZero(x) == x[1] = 0 /\ x[2] # 0
SignOf(x) == IF x[1] < 0 \/ x = NegZero THEN -1 ELSE 1
DNeg(x) == IF IsZero(x) THEN <<0, -x[2]>> ELSE <<-x[1], x[2]>>
Signed(s, x) == IF s < 0 THEN DNeg(x) ELSE x
DAbs(x) == Signed(SignOf(x), x)

\* left_val + right_val
DAdd(x, y) ==
    IF IsNaN(x) \/ IsNaN(y) THEN NaN
    ELSE IF IsInf(x) THEN (IF IsInf(y) /\ y # x THEN NaN ELSE x)
    ELSE IF IsInf(y) THEN y
    ELSE IF IsZero(x) /\ IsZero(y)
         THEN (IF x = NegZero /\ y = NegZero THEN NegZero ELSE PosZero)
    ELSE IF IsZero(x) THEN y
    ELSE IF IsZero(y) THEN x
    ELSE RAdd(x, y)

\* left_val - right_val
DSub(x, y) == DAdd(x, DNeg(y))

\* left_val * right_val
DMul(x, y) ==
    IF IsNaN(x) \/ IsNaN(y) THEN NaN
    ELSE IF (IsZero(x) /\ IsInf(y)) \/ (IsInf(x) /\ IsZero(y)) THEN NaN
    ELSE IF IsInf(x) \/ IsInf(y) THEN Signed(SignOf(x) * SignOf(y), PosInf)
    ELSE IF IsZero(x) \/ IsZero(y) THEN Signed(SignOf(x) * SignOf(y), PosZero)
    ELSE RMul(x, y)

\* left_val / right_val
DDiv(x, y) ==
    IF IsNaN(x) \/ IsNaN(y) THEN NaN
    ELSE IF (IsZero(x) /\ IsZero(y)) \/ (IsInf(x) /\ IsInf(y)) THEN NaN
    ELSE IF IsZero(y) \/ IsInf(x) THEN Signed(SignOf(x) * SignOf(y), PosInf)
    ELSE IF IsZero(x) \/ IsInf(y) THEN Signed(SignOf(x) * SignOf(y), PosZero)
    ELSE RDiv(x, y)

RECURSIVE RPowInt(_, _)
RPowInt(x, k) == IF k = 0 THEN One ELSE RMul(x, RPowInt(x, k - 1))

\* std::pow(left_val, right_val); a positive finite base with a fractional
\* exponent has no rational value and no arm here
DPow(x, y) ==
    IF IsZero(y) \/ x = One THEN One
    ELSE IF IsNaN(x) \/ IsNaN(y) THEN NaN
    ELSE IF IsInf(y)
         THEN (IF DAbs(x) = One THEN One
               ELSE IF (~IsInf(x) /\ RLt(DAbs(x), One)) = (y = PosInf) THEN PosZero
               ELSE PosInf)
    ELSE IF y[2] = 1
         THEN LET k == Abs(y[1])
                  s == IF k % 2 = 1 THEN SignOf(x) ELSE 1
              IN IF IsZero(x) THEN Signed(s, IF y[1] > 0 THEN PosZero ELSE PosInf)
                 ELSE IF IsInf(x) THEN Signed(s, IF y[1] > 0 THEN PosInf ELSE PosZero)
                 ELSE IF y[1] > 0 THEN RPowInt(x, k)
                 ELSE RDiv(One, RPowInt(x, k))
    ELSE CASE IsZero(x) -> IF y[1] > 0 THEN PosZero ELSE PosInf
           [] IsInf(x) -> IF y[1] > 0 THEN PosInf ELSE PosZero
           [] ~IsZero(x) /\ ~IsInf(x) /\ SignOf(x) < 0 -> NaN

createNumber(value) == [type |-> "NUMBER", number_value |-> value]
createVariable(name) == [type |-> "VARIABLE", variable_name |-> name]
createBinaryOp(op, l, r) == [type |-> "BINARY_OP", operation |-> op, left |-> l, right |-> r]

\* ExpressionNode::interpret
RECURSIVE interpret(_, _, _, _, _)
interpret(expr, a, b, c, d) ==
    CASE expr.type = "NUMBER" -> expr.number_value
      [] expr.type = "VARIABLE" ->
            CASE expr.variable_name = "a" -> a
              [] expr.variable_name = "b" -> b
              [] expr.variable_name = "c" -> c
              [] expr.variable_name = "d" -> d
              [] OTHER -> PosZero
      [] expr.type = "BINARY_OP" ->
            LET left_val == interpret(expr.left, a, b, c, d)
                right_val == interpret(expr.right, a, b, c, d)
            IN CASE expr.operation = "APlusB" -> DAdd(left_val, right_val)
                 [] expr.operation = "AMinusB" -> DSub(left_val, right_val)
                 [] expr.operation = "ATimesB" -> DMul(left_val, right_val)
                 [] expr.operation = "ADividedByB" -> DDiv(left_val, right_val)
                 [] expr.operation = "AToTheBthPower" -> DPow(left_val, right_val)
                 [] OTHER -> PosZero

\* SimpleExpressionJIT::evaluateOptimized, the body of every compiled function
RECURSIVE evaluateOptimized(_, _, _, _, _)
evaluateOptimized(expr, a, b, c, d) ==
    CASE expr.type = "NUMBER" -> expr.number_value
      [] expr.type = "VARIABLE" ->
            LET vars4 == <<a, b, c, d>>     \* double vars[4]
                index == CASE expr.variable_name = "a" -> 0
                           [] expr.variable_name = "b" -> 1
                           [] expr.variable_name = "c" -> 2
                           [] expr.variable_name = "d" -> 3
                           [] OTHER -> 4
            IN IF index >= 0 /\ index < 4 THEN vars4[index + 1] ELSE PosZero
      [] expr.type = "BINARY_OP" ->
            LET left_val == evaluateOptimized(expr.left, a, b, c, d)
                right_val == evaluateOptimized(expr.right, a, b, c, d)
            IN CASE expr.operation = "APlusB" -> DAdd(left_val, right_val)
                 [] expr.operation = "AMinusB" -> DSub(left_val, right_val)
                 [] expr.operation = "ATimesB" -> DMul(left_val, right_val)
                 [] expr.operation = "ADividedByB" ->
                       IF ~IsZero(right_val) THEN DDiv(left_val, right_val) ELSE PosZero
                 [] expr.operation = "AToTheBthPower" -> DPow(left_val, right_val)
                 [] OTHER -> PosZero

\* the expressions compiled and the arguments they are called with
ExprOps == {"APlusB", "AMinusB", "ATimesB", "ADividedByB"}
IntLeaves == {createVariable("a"), createVariable("b"), createNumber(<<2, 1>>)}
Leaves == IntLeaves \cup {createVariable("c"), createNumber(<<5, 2>>)}
Expressions ==
    {createBinaryOp(op, l, r) : op \in ExprOps, l \in Leaves, r \in Leaves}
    \cup {createBinaryOp("AToTheBthPower", l, r) : l \in Leaves, r \in IntLeaves}
    \cup {createBinaryOp(op, createVariable("a"),
                         createBinaryOp("AMinusB", createVariable("a"), createVariable("b"))) :
             op \in ExprOps}
    \cup {createBinaryOp(op, createBinaryOp("ATimesB", createVariable("a"),
                                            createVariable("b")),
                         createVariable("b")) : op \in ExprOps}
Arguments == {<<-1, 1>>, PosZero, One, <<2, 1>>}
ExprNames == {"expr"}

\* SimpleExpressionJIT::compileExpression; a compiled function is the tree
\* its lambda captured
compileExpression(expr, name) ==
    /\ compiled_cache' = IF name \in DOMAIN compiled_cache THEN compiled_cache
                         ELSE (name :> expr) @@ compiled_cache
    /\ last_eval' = [op |-> "compile", name |-> name, requested |-> expr,
                     returned |-> compiled_cache'[name]]
    /\ UNCHANGED outsideExpr

\* a call of the compiled function, and the interpreter run on the tree it
\* was compiled from
benchmarkExpression(name, a, b, c, d) ==
    /\ name \in DOMAIN compiled_cache
    /\ last_eval' = [op |-> "call", expr |-> compiled_cache[name],
                     args |-> <<a, b, c, d>>,
                     compiled |-> evaluateOptimized(compiled_cache[name], a, b, c, d),
                     interpreted |-> interpret(compiled_cache[name], a, b, c, d)]
    /\ UNCHANGED compiled_cache
    /\ UNCHANGED outsideExpr

InitExpr ==
    /\ compiled_cache = <<>>
    /\ last_eval = [op |-> "none"]

(***************************************************************************)
(* SpecializedInstructions.cpp: type inference, the specializing pass and  *)
(* the specialized evaluators                                              *)
(***************************************************************************)
\* SpecializedOps::OpCode
NUMBER_ADD == 1000
NUMBER_SUB == 1001
NUMBER_MUL == 1002
NUMBER_DIV == 1003
STRING_CONCAT == 1004
NUMBER_EQUAL == 1012
NUMBER_LESS == 1013
STRING_EQUAL == 1014
NoSpecializedOp == 0      \* (SpecializedOps::OpCode)0

\* MiniScript::Value: a number, a string (a sequence of characters), a
\* variable reference, a container or null
NumberValue(x) == [type |-> "Number", number |-> x]
StringValue(s) == [type |-> "String", str |-> s]
VarValue(name) == [type |-> "Var", name |-> name]
OtherValue(type) == [type |-> type]
RuntimeException(message) == [type |-> "RuntimeException", message |-> message]
Bool(p) == NumberValue(IF p THEN One ELSE PosZero)

\* a.data.number == b.data.number and a.data.number < b.data.number
DEqual(x, y) == /\ ~IsNaN(x) /\ ~IsNaN(y)
                /\ (x = y \/ (IsZero(x) /\ IsZero(y)))
DLess(x, y) ==
    /\ ~IsNaN(x) /\ ~IsNaN(y) /\ ~DEqual(x, y)
    /\ IF IsInf(x) THEN SignOf(x) < 0
       ELSE IF IsInf(y) THEN SignOf(y) > 0
       ELSE RLt(IF IsZero(x) THEN PosZero ELSE x, IF IsZero(y) THEN PosZero ELSE y)

\* TypeInferenceEngine::canSpecialize
canSpecialize_EitherNumber(op, typeA, typeB) ==
    CASE op \in {"APlusB", "AEqualB", "ANotEqualB"} ->
            (typeA = "Number" \/ typeB = "Number")
            \/ (typeA = "String" /\ typeB = "String")
      [] op \in {"AMinusB", "ATimesB", "ADividedByB"} ->
            typeA = "Number" \/ typeB = "Number"
      [] OTHER -> FALSE
canSpecialize(op, typeA, typeB) ==
    CASE op = "APlusB" -> (typeA = "Number" /\ typeB = "Number")
                          \/ (typeA = "String" /\ typeB = "String")
      [] op \in {"AMinusB", "ATimesB", "ADividedByB"} ->
            typeA = "Number" /\ typeB = "Number"
      [] op \in {"AEqualB", "ANotEqualB"} ->
            (typeA = "Number" /\ typeB = "Number")
            \/ (typeA = "String" /\ typeB = "String")
      [] OTHER -> FALSE

\* TypeInferenceEngine::getSpecializedOp
getSpecializedOp(op, typeA, typeB) ==
    LET numbers == typeA = "Number" /\ typeB = "Number"
        strings == typeA = "String" /\ typeB = "String"
    IN CASE op = "APlusB" /\ numbers -> NUMBER_ADD
         [] op = "APlusB" /\ strings -> STRING_CONCAT
         [] op = "AMinusB" /\ numbers -> NUMBER_SUB
         [] op = "ATimesB" /\ numbers -> NUMBER_MUL
         [] op = "ADividedByB" /\ numbers -> NUMBER_DIV
         [] op = "AEqualB" /\ numbers -> NUMBER_EQUAL
         [] op = "AEqualB" /\ strings -> STRING_EQUAL
         [] OTHER -> NoSpecializedOp

\* SpecializingTACProcessor::inferOperandType
inferOperandType(operand) ==
    IF operand.type \in {"Number", "String", "Map", "List"} THEN operand.type
    ELSE "Null"

\* a variant that writes the specialized operation into the line it was given
trySpecializeOperation_Replaces(line) ==
    LET typeA == inferOperandType(line.rhsA)
        typeB == inferOperandType(line.rhsB)
    IN IF canSpecialize(line.op, typeA, typeB)
       THEN [line |-> [line EXCEPT !.op = "Specialized"],
             specialized |-> TRUE,
             specializedOp |-> getSpecializedOp(line.op, typeA, typeB)]
       ELSE [line |-> line, specialized |-> FALSE, specializedOp |-> NoSpecializedOp]

\* SpecializingTACProcessor::trySpecializeOperation: what it returns, the
\* specialization it records, and the line (passed by reference) as it
\* leaves it
trySpecializeOperation(line) ==
    LET typeA == inferOperandType(line.rhsA)
        typeB == inferOperandType(line.rhsB)
    IN IF canSpecialize(line.op, typeA, typeB)
       THEN [line |-> line, specialized |-> TRUE,
             specializedOp |-> getSpecializedOp(line.op, typeA, typeB)]
       ELSE [line |-> line, specialized |-> FALSE, specializedOp |-> NoSpecializedOp]

\* SpecializedEvaluator
evaluateNumberAdd(a, b) == NumberValue(DAdd(a.number, b.number))
evaluateNumberSub_Swapped(a, b) == NumberValue(DSub(b.number, a.number))
evaluateNumberSub(a, b) == NumberValue(DSub(a.number, b.number))
evaluateNumberMul(a, b) == NumberValue(DMul(a.number, b.number))
evaluateNumberDiv_Unchecked(a, b) == NumberValue(DDiv(a.number, b.number))
evaluateNumberDiv(a, b) ==
    LET bVal == b.number
    IN IF IsZero(bVal) THEN RuntimeException("Division by zero")
       ELSE NumberValue(DDiv(a.number, bVal))
evaluateStringConcat(a, b) == StringValue(a.str \o b.str)
evaluateNumberEqual(a, b) == Bool(DEqual(a.number, b.number))
evaluateStringEqual(a, b) == Bool(a.str = b.str)
evaluateNumberLess(a, b) == Bool(DLess(a.number, b.number))

\* the evaluator written for each specialized OpCode
evaluateSpecialized(specializedOp, a, b) ==
    CASE specializedOp = NUMBER_ADD -> evaluateNumberAdd(a, b)
      [] specializedOp = NUMBER_SUB -> evaluateNumberSub(a, b)
      [] specializedOp = NUMBER_MUL -> evaluateNumberMul(a, b)
      [] specializedOp = NUMBER_DIV -> evaluateNumberDiv(a, b)
      [] specializedOp = STRING_CONCAT -> evaluateStringConcat(a, b)
      [] specializedOp = NUMBER_EQUAL -> evaluateNumberEqual(a, b)
      [] specializedOp = STRING_EQUAL -> evaluateStringEqual(a, b)
      [] specializedOp = NUMBER_LESS -> evaluateNumberLess(a, b)

\* the generic TAC operation each specialized OpCode stands for, and the
\* operand type it is proven for
GenericOp(specializedOp) ==
    CASE specializedOp \in {NUMBER_ADD, STRING_CONCAT} -> "APlusB"
      [] specializedOp = NUMBER_SUB -> "AMinusB"
      [] specializedOp = NUMBER_MUL -> "ATimesB"
      [] specializedOp = NUMBER_DIV -> "ADividedByB"
      [] specializedOp \in {NUMBER_EQUAL, STRING_EQUAL} -> "AEqualB"
      [] specializedOp = NUMBER_LESS -> "ALessThanB"
ProvenType(specializedOp) ==
    IF specializedOp \in {STRING_CONCAT, STRING_EQUAL} THEN "String" ELSE "Number"

\* the interpreter's generic evaluation of a binary TAC line: it dispatches
\* on the operands' runtime types and raises on a zero divisor
Evaluate(op, a, b) ==
    IF a.type = "Number" /\ b.type = "Number"
    THEN CASE op = "APlusB" -> NumberValue(DAdd(a.number, b.number))
           [] op = "AMinusB" -> NumberValue(DSub(a.number, b.number))
           [] op = "ATimesB" -> NumberValue(DMul(a.number, b.number))
           [] op = "ADividedByB" ->
                 IF IsZero(b.number) THEN RuntimeException("Division by zero")
                 ELSE NumberValue(DDiv(a.number, b.number))
           [] op = "AEqualB" -> Bool(DEqual(a.number, b.number))
           [] op = "ALessThanB" -> Bool(DLess(a.number, b.number))
           [] OTHER -> OtherValue("Null")
    ELSE IF a.type = "String" /\ b.type = "String"
    THEN CASE op = "APlusB" -> StringValue(a.str \o b.str)
           [] op = "AEqualB" -> Bool(a.str = b.str)
           [] OTHER -> OtherValue("Null")
    ELSE OtherValue("Null")

\* operands and lines given to the specializer and the evaluators
Numbers == {NumberValue(x) : x \in {<<-1, 1>>, PosZero, NegZero, One, <<5, 2>>, PosInf, NaN}}
Strings == {StringValue(s) : s \in {<<>>, <<"a">>, <<"a", "b">>}}
LineOperands == {NumberValue(One), NumberValue(PosZero), StringValue(<<"a">>),
                 VarValue("x"), OtherValue("Map"), OtherValue("List"), OtherValue("Null")}
SpecializerOps == {"APlusB", "AMinusB", "ATimesB", "ADividedByB", "AEqualB",
                   "ANotEqualB", "ALessThanB", "ElemBofA"}
TACLine(op, rhsA, rhsB) == [op |-> op, rhsA |-> rhsA, rhsB |-> rhsB]
SpecializedOpCodes == {NUMBER_ADD, NUMBER_SUB, NUMBER_MUL, NUMBER_DIV, STRING_CONCAT,
                       NUMBER_EQUAL, STRING_EQUAL, NUMBER_LESS}

\* SpecializingTACProcessor::processContext on a context of one line
processContext(line) ==
    \E r \in {trySpecializeOperation(line)} :
       /\ total_operations < MaxOperations
       /\ total_operations' = total_operations + 1
       /\ specialized_operations' = IF r.specialized THEN specialized_operations + 1
                                    ELSE specialized_operations
       /\ last_specialization' = r
       /\ UNCHANGED last_evaluation
       /\ UNCHANGED outsideSpecializer

\* a specialized instruction and its generic instruction evaluated on the
\* same operands of the proven type
evaluateBoth(specializedOp, a, b) ==
    /\ a.type = ProvenType(specializedOp)
    /\ b.type = ProvenType(specializedOp)
    /\ last_evaluation' = [specializedOp |-> specializedOp, a |-> a, b |-> b,
                           specialized |-> evaluateSpecialized(specializedOp, a, b),
                           generic |-> Evaluate(GenericOp(specializedOp), a, b)]
    /\ UNCHANGED <<total_operations, specialized_operations, last_specialization>>
    /\ UNCHANGED outsideSpecializer

NoSpecialization == [specialized |-> FALSE, specializedOp |-> NoSpecializedOp]
NoEvaluation == [specializedOp |-> NoSpecializedOp]

InitSpecializer ==
    /\ total_operations = 0
    /\ specialized_operations = 0
    /\ last_specialization = NoSpecialization
    /\ last_evaluation = NoEvaluation

(***************************************************************************)
(* The dispatcher: JITMachine (RuntimeJIT.cpp), running one context        *)
(***************************************************************************)
\* the context on the machine's stack
MachineContext == "ctxB"

AttemptThreshold == 50
MinContextLines == 5
compilationThreshold == 100

\* RuntimeJIT::contextExecutionCounts_: declared, read, and written nowhere
contextExecutionCounts_ == <<>>

shouldCompileContext(context) ==
    IF Count(context) < MinContextLines THEN FALSE
    ELSE IF context \notin DOMAIN contextExecutionCounts_ THEN FALSE
    ELSE \E l \in DOMAIN contextExecutionCounts_[context] :
            contextExecutionCounts_[context][l] >= compilationThreshold

\* counts is instructionCounts_ after updateInstructionStats
shouldAttemptJIT(counts, context, lineNumber) ==
    IF lineNumber \in DOMAIN counts /\ counts[lineNumber] >= AttemptThreshold
    THEN shouldCompileContext(context)
    ELSE FALSE

\* the regions executeJITOrFallback may pick for a line: those of largest span
bestRegions(currentLine) ==
    LET covering == {k \in DOMAIN compiledRegions_ :
                        /\ currentLine >= compiledRegions_[k].startLine
                        /\ currentLine <= compiledRegions_[k].endLine}
        span(k) == compiledRegions_[k].endLine - compiledRegions_[k].startLine
    IN {k \in covering : \A j \in covering : span(j) <= span(k)}

\* the fallback of Step, context->code[context->lineNum++] and DoOneLine,
\* preceded by a variant that runs the line only while the JIT is enabled
interpretOneLine_SkipsWhenDisabled(counts) ==
    /\ lineNum' = lineNum + 1
    /\ executed' = IF jitEnabled_ THEN Append(executed, lineNum) ELSE executed
    /\ instructionCounts_' = counts
    /\ totalInstructions' = totalInstructions + 1
    /\ UNCHANGED <<compiledRegions_, stats_>>
interpretOneLine(counts) ==
    /\ lineNum' = lineNum + 1
    /\ executed' = Append(executed, lineNum)
    /\ instructionCounts_' = counts
    /\ totalInstructions' = totalInstructions + 1
    /\ UNCHANGED <<compiledRegions_, stats_>>

\* JITMachine::Step, the machine's thread making no other RuntimeJIT call
Step ==
    /\ pc[1] = "idle"
    /\ IF lineNum >= Count(MachineContext)
       THEN \* the only context of the stack is done
            UNCHANGED <<lineNum, executed, instructionCounts_, totalInstructions,
                        compiledRegions_, stats_>>
       ELSE \E counts \in {[l \in DOMAIN instructionCounts_ \cup {lineNum} |->
                              IF l = lineNum
                              THEN (IF l \in DOMAIN instructionCounts_
                                    THEN instructionCounts_[l] ELSE 0) + 1
                              ELSE instructionCounts_[l]]} :
            IF jitEnabled_ /\ shouldAttemptJIT(counts, MachineContext, lineNum)
            THEN IF bestRegions(lineNum) # {}
                 THEN \E k \in bestRegions(lineNum) :
                         /\ stats_' = [stats_ EXCEPT !.jitExecutions = @ + 1]
                         /\ compiledRegions_' = [compiledRegions_ EXCEPT
                                                    ![k].executionCount = @ + 1]
                         /\ lineNum' = compiledRegions_[k].endLine + 1
                         /\ instructionCounts_' = counts
                         /\ totalInstructions' = totalInstructions + 1
                         /\ UNCHANGED executed
                 ELSE /\ stats_' = [stats_ EXCEPT !.interpreterExecutions = @ + 1]
                      /\ lineNum' = lineNum + 1
                      /\ executed' = Append(executed, lineNum)
                      /\ instructionCounts_' = counts
                      /\ totalInstructions' = totalInstructions + 1
                      /\ UNCHANGED compiledRegions_
            ELSE interpretOneLine(counts)
    /\ UNCHANGED <<jitEnabled_, next_function, cache_epoch, pc, frame, ret>>
    /\ UNCHANGED <<fpVars, profVars, exprVars, specializerVars, queryVars,
                   callerVars, clearVars, hotPathVars,
                      dictVars>>

setJITEnabled(enabled) ==
    /\ jitEnabled_' = enabled
    /\ UNCHANGED <<lineNum, executed, instructionCounts_, totalInstructions>>
    /\ UNCHANGED outsideMachine

InitMachine ==
    /\ lineNum = 0
    /\ instructionCounts_ = <<>>
    /\ totalInstructions = 0
    /\ jitEnabled_ = TRUE
    /\ executed = <<>>

(***************************************************************************)
(* recordExecution called from several threads: fingerprint runs before    *)
(* profiles_mutex is taken, and each normalizeVariable call it makes reads *)
(* and writes the statics var_map and next_var_id with no lock.            *)
(***************************************************************************)
RECURSIVE nextOperand(_, _, _, _)
\* the position of the fingerprint loop at its next normalizeVariable call:
\* instruction i, operand k (1 is operandA, 2 is operandB), and the stream ss
\* written so far; i is past the end when the loop is over
nextOperand(instructions, i, k, ss) ==
    IF i > Len(instructions) THEN [i |-> i, k |-> 0, ss |-> ss]
    ELSE LET instr == instructions[i]
         IN IF k = 0
            THEN nextOperand(instructions, i, 1, ss \o Digits(instr.operation) \o <<58>>)
            ELSE IF k = 1
            THEN IF instr.operandA # "" THEN [i |-> i, k |-> 1, ss |-> ss]
                 ELSE nextOperand(instructions, i, 2, ss)
            ELSE IF k = 2
            THEN IF instr.operandB # "" THEN [i |-> i, k |-> 2, ss |-> ss]
                 ELSE nextOperand(instructions, i, 3, ss)
            ELSE nextOperand(instructions, i + 1, 0,
                             (IF instr.operation = LOAD_CONST
                              THEN ss \o PrintDouble(instr.constant_value) \o <<44>>
                              ELSE ss) \o <<59>>)

operandAt(f) == IF f.k = 1 THEN f.expr[f.i].operandA ELSE f.expr[f.i].operandB

\* the loop goes on after normalizeVariable returned str
afterOperand(t, str) ==
    LET f == rec_frame[t]
        n == nextOperand(f.expr, f.i, f.k + 1, f.ss \o str \o <<44>>)
    IN /\ rec_frame' = [rec_frame EXCEPT ![t] =
                           [f EXCEPT !.i = n.i, !.k = n.k, !.ss = n.ss]]
       /\ rec_pc' = [rec_pc EXCEPT ![t] =
                        IF n.i > Len(f.expr) THEN "lock" ELSE "find"]

RecExprs == {exprAddXY}
inFlight == {t \in Threads : rec_pc[t] # "idle"}

\* recordExecution is entered: fingerprint starts its loop
recordExecutionEnter(t, expr, execution_time_ns) ==
    LET n == nextOperand(expr, 1, 0, <<>>)
    IN /\ rec_pc[t] = "idle"
       /\ completed.calls + Cardinality(inFlight) < MaxCalls
       /\ rec_frame' = [rec_frame EXCEPT ![t] =
                           [op |-> "recordExecution", expr |-> expr,
                            execution_time_ns |-> execution_time_ns,
                            i |-> n.i, k |-> n.k, ss |-> n.ss]]
       /\ rec_pc' = [rec_pc EXCEPT ![t] = IF n.i > Len(expr) THEN "lock" ELSE "find"]
       /\ UNCHANGED <<fpVars, profVars, completed>>
       /\ UNCHANGED outsideCallers

\* normalizeVariable: var_map.find(var)
normalizeVariableFind(t) ==
    LET var == operandAt(rec_frame[t])
    IN /\ rec_pc[t] = "find"
       /\ IF var \in DOMAIN var_map
          THEN afterOperand(t, <<118>> \o Digits(var_map[var]))
          ELSE /\ rec_pc' = [rec_pc EXCEPT ![t] = "insert"]
               /\ UNCHANGED rec_frame
       /\ UNCHANGED <<fpVars, profVars, completed>>
       /\ UNCHANGED outsideCallers

\* normalizeVariable after a miss: next_var_id++ and var_map[var] = normalized
normalizeVariableInsert(t) ==
    LET var == operandAt(rec_frame[t])
    IN /\ rec_pc[t] = "insert"
       /\ next_var_id' = next_var_id + 1
       /\ var_map' = [v \in DOMAIN var_map \cup {var} |->
                         IF v = var THEN next_var_id ELSE var_map[v]]
       /\ afterOperand(t, <<118>> \o Digits(next_var_id))
       /\ UNCHANGED <<calls, profVars, completed>>
       /\ UNCHANGED outsideCallers

\* recordExecution from lock_guard(profiles_mutex) to its return
recordExecutionLocked(t, now, time_window) ==
    LET f == rec_frame[t]
    IN /\ rec_pc[t] = "lock"
       /\ \E hash \in {hasher(f.ss)} :
          \E p0 \in {IF hash \in DOMAIN profiles THEN profiles[hash]
                      ELSE ExpressionProfile(analyzeComplexity(f.expr))} :
          \E p1 \in {[p0 EXCEPT !.execution_count = @ + 1,
                                !.total_execution_time_ns = @ + f.execution_time_ns,
                                !.last_execution_time = now]} :
          \E st \in {IF p1.status = NOT_ANALYZED
                      THEN analyzeForCompilation(p1, thresholds, time_window)
                      ELSE p1.status} :
             /\ profiles' = [h \in DOMAIN profiles \cup {hash} |->
                                IF h = hash THEN [p1 EXCEPT !.status = st] ELSE profiles[h]]
             /\ total_profiles' = IF hash \in DOMAIN profiles THEN total_profiles
                                   ELSE total_profiles + 1
             /\ jit_candidates' = IF p1.status = NOT_ANALYZED /\ st = JIT_CANDIDATE
                                   THEN jit_candidates + 1 ELSE jit_candidates
             /\ rec_pc' = [rec_pc EXCEPT ![t] = "idle"]
             /\ rec_frame' = [rec_frame EXCEPT ![t] = [op |-> "none"]]
             /\ completed' = [calls |-> completed.calls + 1,
                              time |-> completed.time + f.execution_time_ns]
             /\ UNCHANGED <<fpVars, thresholds, successful_compilations,
                            failed_compilations, threshold_updates>>
             /\ UNCHANGED outsideCallers

(***************************************************************************)
(* Dictionary.h: Dictionary<unsigned int, V, hashUInt>, a chained hash     *)
(* table that grows and shrinks through the prime sizes                    *)
(***************************************************************************)
TABLE_SIZE == 251
PRIME_SIZES == <<251, 503, 1009, 2017, 4049, 8101, 16187, 32371, 64747, 129499,
                 258991, 517997, 1035989, 2071981, 4143961, 8287919, 16575841>>

GetNextTableSize(currentSize) ==
    IF \E i \in 1..(Len(PRIME_SIZES) - 1) : PRIME_SIZES[i] = currentSize
    THEN PRIME_SIZES[(CHOOSE i \in 1..(Len(PRIME_SIZES) - 1) :
                         PRIME_SIZES[i] = currentSize) + 1]
    ELSE currentSize * 2

GetPrevTableSize(currentSize) ==
    IF \E i \in 2..Len(PRIME_SIZES) : PRIME_SIZES[i] = currentSize
    THEN PRIME_SIZES[(CHOOSE i \in 2..Len(PRIME_SIZES) :
                         PRIME_SIZES[i] = currentSize) - 1]
    ELSE IF currentSize > 2 THEN currentSize \div 2 ELSE currentSize

\* unsigned int arithmetic: a 32-bit value is <<high half, low half>>
Half == 65536
UInt(x) == <<x \div Half, x % Half>>
\* (a * b) % Half for two halves, through the bytes of a
MulHalf(a, b) == ((((a \div 256) * b) % 256) * 256 + (a % 256) * b) % Half
\* (x >> 16) ^ x
ShiftXor(x) == <<x[1], Xor(x[1], x[2])>>
\* x * 0x45d9f3b, truncated to 32 bits
TimesMagic(x) ==
    LET ch == 1117
        cl == 40763
        t1 == (x[2] \div 256) * cl
        lowsum == (t1 % 256) * 256 + (x[2] % 256) * cl
    IN <<((t1 \div 256) + (lowsum \div Half) + MulHalf(x[1], cl) + MulHalf(x[2], ch))
            % Half,
         lowsum % Half>>

hashUInt(xin) == ShiftXor(TimesMagic(ShiftXor(TimesMagic(ShiftXor(UInt(xin))))))

\* the keys given to the dictionary, with the hash of each
DictKeys == 0..MaxDictSize
hashOfKey == [k \in DictKeys |-> hashUInt(k)]

\* ((unsigned int)HASH(key)) % tableSize
hashKey(key, tableSize) ==
    (((hashOfKey[key][1] % tableSize) * (Half % tableSize)) + hashOfKey[key][2])
       % tableSize

HashMapEntry(key, value) == [key |-> key, value |-> value]

\* the table ResizeTable builds: the old bins are walked in order, each chain
\* from its head, and every entry is put at the head of its new bin, so a
\* new bin holds its entries last-walked first
ResizeTable(table, oldSize, newSize) ==
    LET walked == UNION {{<<i, j>> : j \in 1..Len(table[i])} : i \in 0..(oldSize - 1)}
        later(f, e) == f[1] > e[1] \/ (f[1] = e[1] /\ f[2] > e[2])
    IN [b \in 0..(newSize - 1) |->
           LET into == {e \in walked : hashKey(table[e[1]][e[2]].key, newSize) = b}
           IN [k \in 1..Cardinality(into) |->
                  LET e == CHOOSE e \in into :
                              Cardinality({f \in into : later(f, e)}) = k - 1
                  IN table[e[1]][e[2]]]]

chainHas(chain, key) == \E j \in 1..Len(chain) : chain[j].key = key

\* the state SetValue works on after its load-factor check
grownTable ==
    IF 4 * mSize > 3 * mTableSize
    THEN [size |-> GetNextTableSize(mTableSize),
          table |-> ResizeTable(mTable, mTableSize, GetNextTableSize(mTableSize))]
    ELSE [size |-> mTableSize, table |-> mTable]

SetValue(key, value) ==
    \E g \in {grownTable} :
       LET hash == hashKey(key, g.size)
           chain == g.table[hash]
       IN /\ mTableSize' = g.size
          /\ IF chainHas(chain, key)
             THEN /\ mTable' = [g.table EXCEPT ![hash] =
                                  [j \in 1..Len(chain) |->
                                      IF chain[j].key = key
                                      THEN HashMapEntry(key, value) ELSE chain[j]]]
                  /\ mSize' = mSize
             ELSE /\ mSize < MaxDictSize
                  /\ mTable' = [g.table EXCEPT ![hash] =
                                  <<HashMapEntry(key, value)>> \o chain]
                  /\ mSize' = mSize + 1
          /\ UNCHANGED outsideDictionary

Remove(key) ==
    LET hash == hashKey(key, mTableSize)
        chain == mTable[hash]
    IN /\ IF chainHas(chain, key)
          THEN \E unlinked \in {[mTable EXCEPT ![hash] =
                                  SelectSeq(chain, LAMBDA en : en.key # key)]} :
                  /\ mSize' = mSize - 1
                  /\ IF /\ 4 * (mSize - 1) < mTableSize
                        /\ mTableSize > TABLE_SIZE
                        /\ GetPrevTableSize(mTableSize) >= TABLE_SIZE
                     THEN /\ mTableSize' = GetPrevTableSize(mTableSize)
                          /\ mTable' = ResizeTable(unlinked, mTableSize,
                                                   GetPrevTableSize(mTableSize))
                     ELSE /\ mTableSize' = mTableSize
                          /\ mTable' = unlinked
          ELSE UNCHANGED dictVars
       /\ UNCHANGED outsideDictionary

\* the keys of the chains of bins lo..hi, in order
RECURSIVE binKeys(_, _)
binKeys(lo, hi) ==
    IF lo = hi THEN [j \in 1..Len(mTable[lo]) |-> mTable[lo][j].key]
    ELSE binKeys(lo, (lo + hi) \div 2) \o binKeys((lo + hi) \div 2 + 1, hi)

\* Dictionary::Keys: for (int i=0; i<TABLE_SIZE; i++) over each chain
Keys == binKeys(0, TABLE_SIZE - 1)

\* the keys a DictIterator passes from its construction until Done(): the
\* first bin below TABLE_SIZE with data, then each chain and the next bin
\* while binIndex + 1 < TABLE_SIZE
iterated == binKeys(0, TABLE_SIZE - 1)

\* Dictionary::Count
DictCount == mSize

\* Dictionary(): no storage until the first SetValue, which creates a table
\* of TABLE_SIZE empty bins; every read treats the two alike
InitDictionary ==
    /\ mSize = 0
    /\ mTableSize = TABLE_SIZE
    /\ mTable = [b \in 0..(TABLE_SIZE - 1) |-> <<>>]

InitHotPath ==
    /\ profile_ = [contextExecutionCounts |-> 0, lineExecutionCounts |-> <<>>]
    /\ compile_attempt = [called |-> FALSE]

InitCallers ==
    /\ rec_pc = [t \in Threads |-> "idle"]
    /\ rec_frame = [t \in Threads |-> [op |-> "none"]]
    /\ completed = [calls |-> 0, time |-> 0]

(***************************************************************************)
(* Initial states                                                          *)
(***************************************************************************)
NoStatics == [var_map |-> <<>>, next_var_id |-> 0]

\* the profiler after construction
InitFresh ==
    /\ var_map = NoStatics.var_map
    /\ next_var_id = NoStatics.next_var_id
    /\ profiles = <<>>

\* the profiler after WarmCount calls recordExecution(createSimple, d)
InitWarm(d) ==
    LET r == fingerprint(createSimple, NoStatics)
    IN /\ var_map = r.st.var_map
       /\ next_var_id = r.st.next_var_id
       /\ profiles = (r.hash :> [ExpressionProfile(analyzeComplexity(createSimple))
                                   EXCEPT !.execution_count = WarmCount,
                                          !.total_execution_time_ns = WarmCount * d,
                                          !.last_execution_time = 1])

InitCounters ==
    /\ calls = <<>>
    /\ thresholds = CompilationThresholds
    /\ jit_candidates = 0
    /\ successful_compilations = 0
    /\ failed_compilations = 0
    /\ threshold_updates = 0

\* every object as constructed
Init ==
    /\ InitCounters
    /\ InitFresh /\ total_profiles = 0
    /\ InitCache
    /\ InitExpr
    /\ InitSpecializer
    /\ InitMachine
    /\ InitQuery
    /\ InitCallers
    /\ clear_calls = 0
    /\ InitHotPath
    /\ InitDictionary

\* as Init, or with the profiler already one execution short of its threshold
InitProfiler ==
    /\ InitCounters
    /\ InitCache
    /\ InitExpr
    /\ InitSpecializer
    /\ InitMachine
    /\ InitQuery
    /\ InitCallers
    /\ clear_calls = 0
    /\ InitHotPath
    /\ InitDictionary
    /\ \/ InitFresh /\ total_profiles = 0
       \/ \E d \in Durations : InitWarm(d) /\ total_profiles = 1

NextProfiler ==
    \/ \E e \in ProfExprs, t \in Durations, now \in Timestamps, w \in Windows :
          recordExecution(e, t, now, w)
    \/ \E e \in ProfExprs, ok \in BOOLEAN, t \in CompileTimes :
          recordCompilation(e, ok, t)
    \/ \E e \in ProfExprs, t \in JitDurations : recordJITExecution(e, t)
    \/ updateThresholds

SpecProfiler == InitProfiler /\ [][NextProfiler]_vars

NextFp == \E s \in FpSequences : Fingerprint(s)

SpecFp == Init /\ [][NextFp]_vars

\* the calls one thread may make or continue
CacheStep(t, requests, lines) ==
    \/ \E r \in requests : compileContextRange(t, r[1], r[2], r[3])
    \/ \E o \in GenerateOutcomes : generateFunction(t, o)
    \/ storeRegion(t)
    \/ \E c \in Contexts, l \in lines : executeJITOrFallback(t, c, l)
    \/ \E l \in Lines : executeCompiledFunction(t, l)
    \/ cleanupCompiledRegions

\* one caller at a time, any range of any context
AllRequests == UNION {{<<c, r[1], r[2]>> : r \in Ranges(c)} : c \in Contexts}
NextCacheSequential == CacheStep(1, AllRequests, Lines)
SpecCacheSequential == Init /\ [][NextCacheSequential]_vars

\* callers on several threads, interleaved at the critical sections, each
\* compiling a whole context as JITInterpreter::CompileCurrentContext does
WholeContexts == {<<c, 0, Count(c) - 1>> : c \in Contexts}
NextCache == \E t \in Threads : CacheStep(t, WholeContexts, {0})
SpecCache == Init /\ [][NextCache]_vars

NextExpr ==
    \/ \E e \in Expressions, n \in ExprNames : compileExpression(e, n)
    \/ \E n \in ExprNames, a \in Arguments, b \in Arguments :
          benchmarkExpression(n, a, b, One, One)

SpecExpr == Init /\ [][NextExpr]_vars

NextSpecializer ==
    \E op \in SpecializerOps, a \in LineOperands, b \in LineOperands :
       processContext(TACLine(op, a, b))
SpecSpecializer == Init /\ [][NextSpecializer]_vars

NextEvaluator ==
    \E s \in SpecializedOpCodes :
       \E a, b \in Numbers \cup Strings : evaluateBoth(s, a, b)

SpecEvaluator == Init /\ [][NextEvaluator]_vars

(***************************************************************************)
(* Claims about the compiled-region cache                                  *)
(***************************************************************************)
\* C3: when several callers concurrently request the same never-compiled
\* fingerprint the code generator is invoked once: no two calls in flight
\* hold a function each that the generator made for the same fingerprint.
C3_OneCompilePerFingerprint ==
    \A t1, t2 \in Threads :
        (t1 # t2 /\ pc[t1] = "store" /\ pc[t2] = "store")
            => frame[t1].fingerprint # frame[t2].fingerprint

\* C4: a compileContextRange call made, with no other call in flight, for a
\* fingerprint that an earlier call compiled returns true from the lookup,
\* leaves the region stored for it (and every other) as it was, and does not
\* reach the code generator.
C4_CompilationIdempotent ==
    [][\A r \in AllRequests :
          (/\ compileContextRange(1, r[1], r[2], r[3])
           /\ generateContextFingerprint(r[1], r[2], r[3]) \in DOMAIN compiledRegions_)
          => /\ pc'[1] = "idle"
             /\ ret'[1] = [op |-> "compile", value |-> TRUE, path |-> "cached"]
             /\ compiledRegions_' = compiledRegions_
             /\ next_function' = next_function]_vars

\* a second call has found the region of the first
C4_Witness ==
    /\ ret[1] = [op |-> "compile", value |-> TRUE, path |-> "cached"]
    /\ compiledRegions_ # <<>>

\* C5: a fingerprint that has a compiled entry keeps that entry, with the
\* same compiled function, across every step other than the explicit clear.
C5_CacheAppendOnly ==
    [][cleanupCompiledRegions
       \/ \A k \in DOMAIN compiledRegions_ :
             /\ k \in DOMAIN compiledRegions_'
             /\ compiledRegions_'[k].function = compiledRegions_[k].function]_vars

(***************************************************************************)
(* Claims about compiled expressions                                       *)
(***************************************************************************)
\* C6: for every compiled expression and every argument list, a divisor of
\* zero included, the compiled function returns what interpreting the same
\* expression tree returns.
C6_CompiledEqualsInterpreted ==
    last_eval.op = "call" => last_eval.compiled = last_eval.interpreted

C8_SpecializeOnlyProven ==
    last_specialization.specialized
        => /\ last_specialization.line.rhsA.type = last_specialization.line.rhsB.type
           /\ last_specialization.line.rhsA.type \in {"Number", "String"}

\* a number addition was specialized and a mixed one was left generic
C8_Witness ==
    /\ last_specialization.specialized
    /\ last_specialization.specializedOp = NUMBER_ADD
    /\ specialized_operations < total_operations

\* C9: the specialized numeric division, given a divisor of zero, signals
\* division by zero and returns no value.
C9_DivisionChecksZero ==
    (/\ last_evaluation.specializedOp = NUMBER_DIV
     /\ IsZero(last_evaluation.b.number))
        => last_evaluation.specialized = RuntimeException("Division by zero")

\* the specialized division has been given a zero divisor
C9_Witness ==
    /\ last_evaluation.specializedOp = NUMBER_DIV
    /\ last_evaluation.b = NumberValue(NegZero)
    /\ last_evaluation.a = NumberValue(One)

(***************************************************************************)
(* Claims about the profiler                                               *)
(***************************************************************************)
TerminalStatuses == {JIT_COMPILED, JIT_FAILED, INTERPRETER_ONLY}

\* C1: a profile whose status is Compiled, Failed or InterpreterOnly keeps
\* that status under every profiler operation.
C1_StatusMonotone ==
    [][\A f \in DOMAIN profiles :
          profiles[f].status \in TerminalStatuses
              => profiles'[f].status = profiles[f].status]_vars

\* C2: recordCompilation changes a status only from Candidate; Compiled and
\* Failed are never entered from any other status.
C2_CompiledOnlyFromCandidate ==
    [][(\E e \in ProfExprs, ok \in BOOLEAN, t \in CompileTimes : recordCompilation(e, ok, t))
          => \A f \in DOMAIN profiles :
                profiles'[f].status # profiles[f].status
                    => /\ profiles[f].status = JIT_CANDIDATE
                       /\ profiles'[f].status \in {JIT_COMPILED, JIT_FAILED}]_vars

(***************************************************************************)
(* Claims about the fingerprinter                                          *)
(***************************************************************************)
\* the names of an instruction sequence, slot by slot
NameSlots(S) == [k \in 1..(3 * Len(S)) |->
                    LET instr == S[((k - 1) \div 3) + 1]
                    IN CASE (k - 1) % 3 = 0 -> instr.result
                         [] (k - 1) % 3 = 1 -> instr.operandA
                         [] OTHER -> instr.operandB]

\* T is S with its names replaced through one consistent one-to-one mapping
IsRenaming(S, T) ==
    /\ Len(S) = Len(T)
    /\ \A k \in 1..Len(S) : /\ S[k].operation = T[k].operation
                             /\ S[k].constant_value = T[k].constant_value
    /\ \A p, q \in 1..(3 * Len(S)) :
          /\ (NameSlots(S)[p] = NameSlots(S)[q]) <=> (NameSlots(T)[p] = NameSlots(T)[q])
          /\ (NameSlots(S)[p] = "") <=> (NameSlots(T)[p] = "")

\* C10: a sequence and any consistent one-to-one renaming of it have the
\* same fingerprint.
C10_FingerprintStable ==
    \A i, j \in 1..Len(calls) :
        IsRenaming(calls[i].instructions, calls[j].instructions)
            => calls[i].result = calls[j].result

\* C11: the fingerprint of a sequence does not depend on the sequences
\* fingerprinted before it: every call returns what a call made with no
\* earlier call returns for the same sequence.
C11_FingerprintPure ==
    \A i \in 1..Len(calls) :
        calls[i].result = fingerprint(calls[i].instructions, NoStatics).hash

\* the instructions a cache key was made for
regionInstructions(k) == SubList(k[1], k[2], k[3] - k[2] + 1)

\* C12: the cache key of a region depends only on its instruction content:
\* two compiled regions with identical instructions, whatever their contexts
\* and line offsets, are stored under one key and so share one artifact.
C12_KeyFromContentOnly ==
    \A k1, k2 \in DOMAIN compiledRegions_ :
        regionInstructions(k1) = regionInstructions(k2) => k1 = k2

\* C13: a failed compilation (a non-compilable instruction, a generator that
\* returns no function, as after a failed verification, or an exception)
\* returns false, and no step of the failing call, the lookup or the
\* generation, changes the cache contents or the compiled-instruction count.
C13_FailureLeavesCache ==
    [][/\ \A r \in AllRequests :
             (compileContextRange(1, r[1], r[2], r[3]) /\ pc'[1] = "generate")
                => compiledRegions_' = compiledRegions_
       /\ \A o \in GenerateOutcomes \ {"function"} :
             generateFunction(1, o)
                => /\ ret'[1].op = "compile"
                   /\ ret'[1].value = FALSE
                   /\ pc'[1] = "idle"
                   /\ compiledRegions_' = compiledRegions_
                   /\ stats_' = stats_]_vars

\* each kind of failure has been returned while the cache held a region
C13_Witness ==
    /\ compiledRegions_ # <<>>
    /\ ret[1].op = "compile"
    /\ ret[1].value = FALSE
    /\ ret[1].path \in {"nullptr", "exception"}

C13_WitnessNotCompilable ==
    /\ compiledRegions_ # <<>>
    /\ ret[1] = [op |-> "compile", value |-> FALSE, path |-> "not_compilable"]

\* C14: every failed compilation attempt for a region is reported to the
\* Profiler: once a compileContextRange call has returned failure, the
\* Profiler has counted a failed compilation and holds a profile whose
\* status is JIT_FAILED.
C14_FailureReported ==
    \A t \in Threads :
        (ret[t].op = "compile" /\ ret[t].value = FALSE)
            => /\ failed_compilations > 0
               /\ \E f \in DOMAIN profiles : profiles[f].status = JIT_FAILED

\* one caller compiling and running the one region <<ctxA, 0, 1>>, again
\* and again
OneRegion == {<<"ctxA", 0, 1>>}
NextCacheRetry == CacheStep(1, OneRegion, Lines)
SpecCacheRetry == Init /\ [][NextCacheRetry]_vars

\* C15: no retries: when the last compilation of the region's fingerprint
\* has failed in the code generator, a later call for that fingerprint does
\* not reach the code generator again.
C15_NoRetryAfterFailure ==
    [][(/\ ret[1].op = "compile"
        /\ ret[1].value = FALSE
        /\ ret[1].path \in {"nullptr", "exception"})
       => pc'[1] # "generate"]_vars

\* the machine running its context while regions of it are compiled, run
\* and dropped through RuntimeJIT
MachineRequests == {<<MachineContext, r[1], r[2]>> : r \in Ranges(MachineContext)}
NextMachine ==
    \/ Step
    \/ \E enabled \in BOOLEAN : setJITEnabled(enabled)
    \/ CacheStep(1, MachineRequests, Lines)
SpecMachine == Init /\ [][NextMachine]_vars

\* C16: a dispatcher step taken with an instruction at the current pointer
\* that does not execute a compiled region (the JIT disabled, no region
\* covering the line, or the JIT not attempted) runs exactly that one
\* instruction through the base interpreter and moves the pointer past it.
C16_FallbackRunsOneInstruction ==
    [][(/\ Step
        /\ lineNum < Count(MachineContext)
        /\ stats_'.jitExecutions = stats_.jitExecutions)
       => /\ executed' = Append(executed, lineNum)
          /\ lineNum' = lineNum + 1]_vars

\* the whole context was run line by line, the last line with the JIT
\* disabled, while the cache held a region covering a line of it
C16_Witness ==
    /\ executed = <<0, 1, 2>>
    /\ ~jitEnabled_
    /\ \E k \in DOMAIN compiledRegions_ : k[1] = MachineContext

(***************************************************************************)
(* CompilationThresholds::adjustThresholds over long histories             *)
(***************************************************************************)
\* what updateThresholds passes: the success rate of the compilations so
\* far and the average speedup of the compiled profiles (1.0 with no sample)
RecentSuccessRates == {RInt(0), <<1, 2>>, RInt(1)}
RecentSpeedups == {RInt(1), <<3, 2>>, RInt(3)}

\* histories of a profiler whose compilations all failed, and of one whose
\* compilations all succeeded and run three times faster
Histories == {<<RInt(0), RInt(1)>>, <<RInt(1), RInt(3)>>}

adjustThresholdsCall(recent_success_rate, recent_speedup) ==
    /\ threshold_updates < MaxUpdates
    /\ thresholds' = adjustThresholds(thresholds, recent_success_rate, recent_speedup)
    /\ threshold_updates' = threshold_updates + 1
    /\ UNCHANGED <<fpVars, profiles, total_profiles, jit_candidates,
                   successful_compilations, failed_compilations>>
    /\ UNCHANGED outsideProfiler

InitThresholds ==
    /\ InitFresh /\ total_profiles = 0
    /\ calls = <<>>
    /\ jit_candidates = 0
    /\ successful_compilations = 0
    /\ failed_compilations = 0
    /\ threshold_updates = 0
    /\ InitCache
    /\ InitExpr
    /\ InitSpecializer
    /\ InitMachine
    /\ InitQuery
    /\ InitCallers
    /\ clear_calls = 0
    /\ InitHotPath
    /\ InitDictionary
    /\ \E n \in 0..MaxHistory, h \in Histories :
          thresholds = thresholdsAfter(n, h[1], h[2])

NextThresholds ==
    \E sr \in RecentSuccessRates, sp \in RecentSpeedups : adjustThresholdsCall(sr, sp)
SpecThresholds == InitThresholds /\ [][NextThresholds]_vars

\* C17: after any sequence of threshold updates min_execution_count is
\* within 500..5000 and min_execution_frequency is within 50..500.
C17_ThresholdBounds ==
    /\ thresholds.min_execution_count >= 500
    /\ thresholds.min_execution_count <= 5000
    /\ ~RLt(thresholds.min_execution_frequency, RInt(50))
    /\ ~RGt(thresholds.min_execution_frequency, RInt(500))

\* an update has been applied to thresholds at the cap, and one to
\* thresholds at the floor
C17_Witness ==
    /\ threshold_updates > 0
    /\ thresholds.min_execution_count = 5000
    /\ thresholds.min_execution_frequency = RInt(500)

C17_WitnessFloor ==
    /\ threshold_updates > 0
    /\ thresholds.min_execution_count = 500
    /\ thresholds.min_execution_frequency = RInt(50)

thresholdsLowered ==
    \/ thresholds'.min_execution_count < thresholds.min_execution_count
    \/ RLt(thresholds'.min_execution_frequency, thresholds.min_execution_frequency)
thresholdsRaised ==
    \/ thresholds'.min_execution_count > thresholds.min_execution_count
    \/ RGt(thresholds'.min_execution_frequency, thresholds.min_execution_frequency)
smoothedHigh ==
    /\ RGt(thresholds'.success_rate, <<8, 10>>)
    /\ RGt(thresholds'.average_speedup, RInt(2))
smoothedLow ==
    \/ RLt(thresholds'.success_rate, <<5, 10>>)
    \/ RLt(thresholds'.average_speedup, <<12, 10>>)

\* C18: an update lowers a threshold only when the smoothed success rate
\* is above 0.8 and the smoothed speedup above 2.0, raises one only when the
\* smoothed success rate is below 0.5 or the smoothed speedup below 1.2, and
\* in every other case leaves both thresholds as they were.
C18_AdjustmentDirection ==
    [][/\ thresholdsLowered => smoothedHigh
       /\ thresholdsRaised => smoothedLow
       /\ (~smoothedHigh /\ ~smoothedLow)
             => /\ thresholds'.min_execution_count = thresholds.min_execution_count
                /\ thresholds'.min_execution_frequency
                      = thresholds.min_execution_frequency]_vars

\* an update lowered thresholds that earlier updates had raised
C18_Witness ==
    /\ threshold_updates > 0
    /\ RGt(thresholds.success_rate, <<8, 10>>)
    /\ RGt(thresholds.average_speedup, RInt(2))
    /\ thresholds.min_execution_count > 1000
    /\ thresholds.min_execution_count
          < thresholdsAfter(16, RInt(1), RInt(3)).min_execution_count

\* one expression profiled, compiled, run compiled and profiled again while
\* the thresholds are adapted and the dispatcher asks whether to compile
NextCandidacy ==
    \/ \E t \in Durations, now \in Timestamps, w \in Windows :
          recordExecution(createSimple, t, now, w)
    \/ \E ok \in BOOLEAN, t \in CompileTimes : recordCompilation(createSimple, ok, t)
    \/ \E t \in JitDurations : recordJITExecution(createSimple, t)
    \/ updateThresholds
    \/ \E e \in ProfExprs : shouldCompile(e)
SpecCandidacy == InitProfiler /\ [][NextCandidacy]_vars

\* the profiles whose candidacy test has produced a decision
decided == {f \in DOMAIN profiles : profiles[f].status # NOT_ANALYZED}

\* C19: once a profile has left NOT_ANALYZED no later recordExecution call
\* and no threshold update runs the candidacy test on it again or alters its
\* status: the status stays and jit_candidates counts no second decision.
C19_DecidedOnce ==
    [][(\/ updateThresholds
        \/ \E t \in Durations, now \in Timestamps, w \in Windows :
              recordExecution(createSimple, t, now, w))
       => /\ \A f \in decided :
                /\ f \in DOMAIN profiles'
                /\ profiles'[f].status = profiles[f].status
          /\ jit_candidates' # jit_candidates
                => \E f \in DOMAIN profiles' \ decided :
                      profiles'[f].status = JIT_CANDIDATE]_vars

\* a profile decided at its thousandth execution has been executed again
C19_Witness ==
    \E f \in DOMAIN profiles :
        /\ profiles[f].status \in {JIT_CANDIDATE, INTERPRETER_ONLY}
        /\ profiles[f].execution_count > CompilationThresholds.min_execution_count

\* the status of the profile kept for an expression, if there is one
statusOf(expr) ==
    LET h == fingerprint(expr, statics).hash
    IN IF h \in DOMAIN profiles THEN profiles[h].status ELSE "no profile"

\* C20: shouldCompile returns true if and only if the profile of the
\* fingerprint it is asked about has the status JIT_CANDIDATE (false, then,
\* for a fingerprint with no profile).
C20_ShouldCompileIffCandidate ==
    [][\A e \in ProfExprs :
          shouldCompile(e)
             => (should_compile'.result <=> statusOf(e) = JIT_CANDIDATE)]_vars

\* true was returned for a candidate
C20_Witness ==
    /\ should_compile.called
    /\ should_compile.result
    /\ statusOf(should_compile.expr) = JIT_CANDIDATE

\* false was returned for a compiled profile
C20_WitnessCompiled ==
    /\ should_compile.called
    /\ ~should_compile.result
    /\ statusOf(should_compile.expr) = JIT_COMPILED

\* one expression profiled while the dispatcher queries and reports on it
\* and on an expression never executed
NextQueries ==
    \/ \E t \in Durations, now \in Timestamps, w \in Windows :
          recordExecution(createSimple, t, now, w)
    \/ \E e \in ProfExprs : shouldCompile(e)
    \/ \E e \in ProfExprs, w \in Windows : getPriority(e, w)
    \/ \E e \in ProfExprs, ok \in BOOLEAN, t \in CompileTimes : recordCompilation(e, ok, t)
    \/ \E e \in ProfExprs, t \in JitDurations : recordJITExecution(e, t)
SpecQueries == InitProfiler /\ [][NextQueries]_vars

\* no profile is kept for the fingerprint of the expression
unseen(expr) == fingerprint(expr, statics).hash \notin DOMAIN profiles

\* C21: for a fingerprint never passed to recordExecution every query and
\* report returns normally: shouldCompile answers false, getPriority answers
\* VERY_LOW, and recordCompilation and recordJITExecution leave the profiles
\* and the compilation counters as they were.
C21_UnseenAnswersDefault ==
    [][\A e \in ProfExprs :
          unseen(e) =>
             /\ shouldCompile(e) => should_compile'.result = FALSE
             /\ \A w \in Windows :
                   getPriority(e, w) => priority'.result = VERY_LOW
             /\ \A ok \in BOOLEAN, t \in CompileTimes :
                   recordCompilation(e, ok, t)
                      => /\ profiles' = profiles
                         /\ successful_compilations' = successful_compilations
                         /\ failed_compilations' = failed_compilations
             /\ \A t \in JitDurations :
                   recordJITExecution(e, t) => profiles' = profiles]_vars

\* both queries were answered for an expression that has no profile
C21_Witness ==
    /\ should_compile.called /\ priority.called
    /\ should_compile.expr = priority.expr
    /\ unseen(priority.expr)
    /\ ~should_compile.result
    /\ priority.result = VERY_LOW

\* an expression with no instruction
emptyRegion == <<>>

\* the profiler after WarmCount calls recordExecution(emptyRegion, d)
InitWarmEmpty(d) ==
    LET r == fingerprint(emptyRegion, NoStatics)
    IN /\ var_map = r.st.var_map
       /\ next_var_id = r.st.next_var_id
       /\ profiles = (r.hash :> [ExpressionProfile(analyzeComplexity(emptyRegion))
                                   EXCEPT !.execution_count = WarmCount,
                                          !.total_execution_time_ns = WarmCount * d,
                                          !.last_execution_time = 1])

InitEmptyRegion ==
    /\ InitCounters
    /\ InitCache
    /\ InitExpr
    /\ InitSpecializer
    /\ InitMachine
    /\ InitQuery
    /\ InitCallers
    /\ clear_calls = 0
    /\ InitHotPath
    /\ InitDictionary
    /\ \/ InitFresh /\ total_profiles = 0
       \/ \E d \in Durations : InitWarmEmpty(d) /\ total_profiles = 1

\* the empty expression executed, queried and reported on next to another one
EmptyExprs == {emptyRegion, exprAddXY}
NextEmptyRegion ==
    \/ \E e \in EmptyExprs, t \in Durations, now \in Timestamps, w \in Windows :
          recordExecution(e, t, now, w)
    \/ \E e \in EmptyExprs : shouldCompile(e)
    \/ \E e \in EmptyExprs, w \in Windows : getPriority(e, w)
SpecEmptyRegion == InitEmptyRegion /\ [][NextEmptyRegion]_vars

\* C22: an empty region is never a compilation candidate: whatever
\* recordExecution calls were made for the empty instruction list, its
\* profile does not have the status JIT_CANDIDATE.
C22_EmptyNeverCandidate ==
    \A f \in DOMAIN profiles :
        f = fingerprint(emptyRegion, NoStatics).hash
            => profiles[f].status # JIT_CANDIDATE

\* the compiled regions of the machine's context that cover a line
regionsCovering(line) ==
    {k \in DOMAIN compiledRegions_ :
        /\ k[1] = MachineContext
        /\ line >= compiledRegions_[k].startLine
        /\ line <= compiledRegions_[k].endLine}

\* C23: once a region has been compiled, every later execution of it takes
\* the compiled path until the cache is cleared: a dispatcher step at a line
\* a compiled region of the context covers runs the region and interprets
\* nothing.
C23_CompiledPathAfterCompile ==
    [][(Step /\ lineNum < Count(MachineContext) /\ regionsCovering(lineNum) # {})
       => /\ stats_'.jitExecutions = stats_.jitExecutions + 1
          /\ executed' = executed]_vars

(***************************************************************************)
(* Claims about the dispatcher's compiled path                             *)
(***************************************************************************)
\* the cache is cleared at lifecycle points only (RuntimeJIT's destructor is
\* the one caller of cleanupCompiledRegions), when no execution is in flight
quiescentCleanup ==
    /\ \A t \in Threads : pc[t] # "execute"
    /\ cleanupCompiledRegions

NextDispatch ==
    \E t \in Threads :
       \/ \E r \in WholeContexts : compileContextRange(t, r[1], r[2], r[3])
       \/ \E o \in GenerateOutcomes : generateFunction(t, o)
       \/ storeRegion(t)
       \/ \E c \in Contexts, l \in Lines : executeJITOrFallback(t, c, l)
       \/ \E l \in Lines : executeCompiledFunction(t, l)
       \/ quiescentCleanup
SpecDispatch == Init /\ [][NextDispatch]_vars

\* C24: after a compiled region covering the current line has executed
\* successfully, the instruction pointer handed back is the end line of
\* that region plus one.
C24_PointerPastRegion ==
    [][\A t \in Threads :
          (pc[t] = "execute" /\ pc'[t] = "idle" /\ ret'[t].value)
             => ret'[t].currentLine = frame[t].bestFingerprint[3] + 1]_vars

\* an execution entered at line 0 of a region of two lines has returned 2
C24_Witness ==
    \E t \in Threads :
       /\ ret[t].op = "execute"
       /\ ret[t].value
       /\ ret[t].currentLine = 2
       /\ \E k \in DOMAIN compiledRegions_ :
             /\ compiledRegions_[k].startLine = 0
             /\ compiledRegions_[k].endLine = 1
             /\ compiledRegions_[k].executionCount = 1

(***************************************************************************)
(* Claims about recordExecution under concurrency                          *)
(***************************************************************************)
NextRecord ==
    \E t \in Threads :
       \/ \E e \in RecExprs, d \in Durations : recordExecutionEnter(t, e, d)
       \/ normalizeVariableFind(t)
       \/ normalizeVariableInsert(t)
       \/ \E now \in Timestamps, w \in Windows : recordExecutionLocked(t, now, w)
SpecRecord == Init /\ [][NextRecord]_vars

\* C25: once the recordExecution calls made for one expression from several
\* threads have all returned, the profile of its fingerprint counts every
\* one of them and holds the sum of their durations.
C25_NoLostUpdate ==
    (inFlight = {} /\ completed.calls > 0)
       => \E h \in DOMAIN profiles :
             /\ profiles[h].execution_count = completed.calls
             /\ profiles[h].total_execution_time_ns = completed.time

\* C26: while a thread is executing a compiled region it borrowed from the
\* cache, no step of another thread removes that region or replaces the
\* function it holds.
C26_BorrowedRegionStable ==
    [][\A t \in Threads :
          (pc[t] = "execute" /\ pc'[t] = "execute")
             => LET k == frame[t].bestFingerprint
                IN /\ k \in DOMAIN compiledRegions_'
                   /\ compiledRegions_'[k].function = compiledRegions_[k].function
                   /\ compiledRegions_'[k].endLine = compiledRegions_[k].endLine]_vars

(***************************************************************************)
(* Claims about clearing the cache                                         *)
(***************************************************************************)
\* JITMachine::ClearJITCache, which JITInterpreter::ClearJITCache forwards
\* to: under if (jit_) it clears the machine's own execution profile (the
\* contextExecutionCounts and lineExecutionCounts of JITMachine.cpp) and it
\* calls nothing of RuntimeJIT, so compiledRegions_ is as it was
ClearJITCache ==
    /\ clear_calls < MaxClears
    /\ clear_calls' = clear_calls + 1
    /\ UNCHANGED <<fpVars, profVars, cacheVars, exprVars, specializerVars,
                   machineVars, queryVars, callerVars, hotPathVars,
                   dictVars>>

NextClear == NextDispatch \/ ClearJITCache
SpecClear == Init /\ [][NextClear]_vars

\* C27: when a call that clears the cache returns, no compiled region
\* covers any line.
C27_ClearRemovesRegions ==
    [][clear_calls' # clear_calls
          => \A l \in Lines :
                {k \in DOMAIN compiledRegions_' :
                    /\ l >= compiledRegions_'[k].startLine
                    /\ l <= compiledRegions_'[k].endLine} = {}]_vars

(***************************************************************************)
(* Claims about the candidacy test                                         *)
(***************************************************************************)
\* a region one instruction longer than max_complexity allows
longRegion == [i \in 1..(CompilationThresholds.max_complexity + 1) |->
                  SimpleTACLine(ASSIGN, "c", "", "", 0)]
AnalysisExprs == {createSimple, longRegion}

\* the profiler after WarmCount calls recordExecution(expr, d)
InitWarmOf(expr, d) ==
    LET r == fingerprint(expr, NoStatics)
    IN /\ var_map = r.st.var_map
       /\ next_var_id = r.st.next_var_id
       /\ profiles = (r.hash :> [ExpressionProfile(analyzeComplexity(expr))
                                   EXCEPT !.execution_count = WarmCount,
                                          !.total_execution_time_ns = WarmCount * d,
                                          !.last_execution_time = 1])

InitAnalysis ==
    /\ InitCounters
    /\ InitCache
    /\ InitExpr
    /\ InitSpecializer
    /\ InitMachine
    /\ InitQuery
    /\ InitCallers
    /\ clear_calls = 0
    /\ InitHotPath
    /\ InitDictionary
    /\ \E e \in AnalysisExprs, d \in Durations : InitWarmOf(e, d) /\ total_profiles = 1

NextAnalysis ==
    \/ \E e \in AnalysisExprs, t \in Durations, now \in Timestamps, w \in Windows :
          recordExecution(e, t, now, w)
    \/ \E e \in AnalysisExprs : shouldCompile(e)
SpecAnalysis == InitAnalysis /\ [][NextAnalysis]_vars

\* the profiles a step has counted an execution for while they were undecided
\* and that have the executions the candidacy test asks for
tested == {h \in DOMAIN profiles' :
              /\ profiles'[h].execution_count >= thresholds.min_execution_count
              /\ \/ h \notin DOMAIN profiles
                 \/ /\ profiles[h].status = NOT_ANALYZED
                    /\ profiles'[h].execution_count # profiles[h].execution_count}

\* C28: when the candidacy test runs, the profile becomes INTERPRETER_ONLY if
\* the execution frequency is below min_execution_frequency, or the average
\* time is below min_avg_execution_time_ns, or the operation count is above
\* max_complexity, and becomes JIT_CANDIDATE otherwise.
C28_CandidacyDecision ==
    [][\A h \in tested :
          \A e \in AnalysisExprs, t \in Durations, now \in Timestamps, w \in Windows :
             recordExecution(e, t, now, w)
                => LET p == profiles'[h]
                       tooRare == RLt(getExecutionFrequency(p, w),
                                      thresholds.min_execution_frequency)
                       tooShort == RLt(Rat(p.total_execution_time_ns, p.execution_count),
                                       thresholds.min_avg_execution_time_ns)
                       tooComplex == p.operation_count > thresholds.max_complexity
                   IN p.status = IF tooRare \/ tooShort \/ tooComplex
                                 THEN INTERPRETER_ONLY ELSE JIT_CANDIDATE]_vars

\* the long region was refused although it is slow enough, and the short one
\* is absent or undecided
C28_Witness ==
    \E h \in DOMAIN profiles :
       /\ profiles[h].operation_count > thresholds.max_complexity
       /\ profiles[h].status = INTERPRETER_ONLY
       /\ profiles[h].total_execution_time_ns
             >= 10000 * profiles[h].execution_count

\* the short region has become a candidate
C28_WitnessCandidate ==
    \E h \in DOMAIN profiles :
       /\ profiles[h].operation_count <= thresholds.max_complexity
       /\ profiles[h].status = JIT_CANDIDATE

\* C29: a step leaves NOT_ANALYZED every undecided profile whose execution
\* count is at most min_execution_count after it; the candidacy test decides
\* only once the count is above that threshold.
C29_TestedAboveThreshold ==
    [][\A h \in DOMAIN profiles' :
          (/\ profiles'[h].execution_count <= thresholds.min_execution_count
           /\ h \in DOMAIN profiles => profiles[h].status = NOT_ANALYZED)
             => profiles'[h].status = NOT_ANALYZED]_vars

\* C30: under the default thresholds a three-instruction region whose
\* executions take 15 microseconds each is a JIT_CANDIDATE once it has the
\* executions the candidacy test asks for; the decision is taken once, so it
\* is the status the region has after 2,000 executions.
C30_ExampleReachesCandidate ==
    \A h \in DOMAIN profiles :
       (/\ thresholds = CompilationThresholds
        /\ profiles[h].operation_count = 3
        /\ profiles[h].execution_count >= thresholds.min_execution_count
        /\ profiles[h].total_execution_time_ns = 15000 * profiles[h].execution_count)
          => profiles[h].status = JIT_CANDIDATE

(***************************************************************************)
(* Claims about the smoothed metrics                                       *)
(***************************************************************************)
\* |x - y| is below one unit of the last digit a double keeps
near(x, y) ==
    LET d == RAdd(x, <<-y[1], y[2]>>)
    IN RLt(<<Abs(d[1]), d[2]>>, Rat(1, Pow10(DoubleDigits)))

\* what updateThresholds observes in the current state
observedSuccessRate ==
    Rat(successful_compilations, successful_compilations + failed_compilations)
observedSpeedup ==
    IF SpeedupSamples = {} THEN RInt(1)
    ELSE RDiv(SumSpeedup(SpeedupSamples), RInt(Cardinality(SpeedupSamples)))

\* 0.1 * observed + 0.9 * previous
smoothed(observed, previous) ==
    RAdd(RMul(<<1, 10>>, observed), RMul(<<9, 10>>, previous))

compiledWithSamples ==
    {f \in DOMAIN profiles :
        /\ profiles[f].status = JIT_COMPILED
        /\ profiles[f].execution_count > 0
        /\ profiles[f].jit_execution_count > 0
        /\ profiles[f].jit_total_time_ns > 0}

RECURSIVE ratioSum(_)
\* the sum over S of interpreted average / compiled average
ratioSum(S) ==
    IF S = {} THEN RInt(0)
    ELSE LET f == CHOOSE x \in S : TRUE
             p == profiles[f]
         IN RAdd(Rat(p.total_execution_time_ns * p.jit_execution_count,
                     p.execution_count * p.jit_total_time_ns),
                 ratioSum(S \ {f}))

\* C32: the speedup an updateThresholds call feeds to the adjustment is, for
\* the compiled regions, the average interpreted execution time divided by
\* the average compiled execution time (averaged over the regions when there
\* are several): the smoothed speedup moves by a tenth of the way to it.
C32_ObservedSpeedup ==
    [][(threshold_updates' # threshold_updates /\ compiledWithSamples # {})
          => near(thresholds'.average_speedup,
                  RAdd(RMul(<<1, 10>>,
                            RDiv(ratioSum(compiledWithSamples),
                                 RInt(Cardinality(compiledWithSamples)))),
                       RMul(<<9, 10>>, thresholds.average_speedup)))]_vars

\* a compiled region interpreted at 15000 ns and run compiled at 3000 ns on
\* average was observed at 5.0
C32_Witness ==
    /\ threshold_updates > 0
    /\ thresholds.average_speedup = <<1, 2>>
    /\ \E f \in compiledWithSamples :
          /\ profiles[f].total_execution_time_ns = 15000 * profiles[f].execution_count
          /\ profiles[f].jit_total_time_ns = 3000 * profiles[f].jit_execution_count

(***************************************************************************)
(* JITMachine.cpp: the machine wrapper that profiles each step and         *)
(* compiles a window around the current line of a context with hot paths.  *)
(***************************************************************************)
ConsiderThreshold == 50
WindowRadius == 10

\* jit_: the RuntimeJIT the wrapper drives.  ExecuteWithJITOrFallback and the
\* checks it makes are modelled with one attached; the constructor as it
\* stands leaves jit_ empty, and Step then takes the interpreter branch only
jit_ == TRUE

\* the code of the context on top of the stack: a loop whose body is longer
\* than a window, with a conditional skip forward inside it, closed by a
\* conditional jump back to line 0
loopCode == [i \in 0..(3 * WindowRadius) |->
                IF i = 3 * WindowRadius
                THEN [op |-> "GotoAifB", rhsA |-> 0]
                ELSE IF i = 2 * WindowRadius
                THEN [op |-> "GotoAifB", rhsA |-> 2 * WindowRadius + 2]
                ELSE [op |-> "AssignA", rhsA |-> 0]]
loopCount == 3 * WindowRadius + 1

\* the test HasHotPaths applies to line i: a jump with a numeric target
\* before its own line
backwardJump(i) ==
    /\ loopCode[i].op \in {"GotoA", "GotoAifB", "GotoAifTrulyB", "GotoAifNotB"}
    /\ loopCode[i].rhsA < i

HasHotPaths ==
    IF loopCount < 5 THEN FALSE
    ELSE \E i \in 0..(loopCount - 1) : backwardJump(i)

ShouldConsiderJIT(counts) ==
    IF ~jit_ \/ ~jitEnabled_ THEN FALSE
    ELSE counts > ConsiderThreshold

\* machine_->Step() on the line the context stands at; taken is whether the
\* condition of a conditional jump holds
machineStep(taken) ==
    IF loopCode[lineNum].op = "GotoAifB" /\ taken
    THEN loopCode[lineNum].rhsA
    ELSE lineNum + 1

ExecuteWithJITOrFallback(taken) ==
    LET currentLine == lineNum
        counts == profile_.contextExecutionCounts + 1
        lines == profile_.lineExecutionCounts
    IN /\ profile_' =
             [contextExecutionCounts |-> counts,
              lineExecutionCounts |->
                 [l \in DOMAIN lines \cup {currentLine} |->
                     IF l \in DOMAIN lines
                     THEN IF l = currentLine THEN lines[l] + 1 ELSE lines[l]
                     ELSE 1]]
       /\ lineNum' = machineStep(taken)
       /\ IF ShouldConsiderJIT(counts) /\ HasHotPaths
          THEN compile_attempt' =
                  [called |-> TRUE,
                   startLine |-> Max(0, currentLine - WindowRadius),
                   endLine |-> Min(loopCount - 1, currentLine + WindowRadius)]
          ELSE UNCHANGED compile_attempt

\* JITMachine::Step of JITMachine.cpp
JITMachineStep(taken) ==
    /\ profile_.contextExecutionCounts < MaxProfiledSteps
    /\ IF lineNum >= loopCount
       THEN UNCHANGED <<lineNum, hotPathVars>>
       ELSE IF jitEnabled_ /\ jit_
       THEN ExecuteWithJITOrFallback(taken)
       ELSE /\ lineNum' = machineStep(taken)
            /\ UNCHANGED hotPathVars
    /\ UNCHANGED <<instructionCounts_, totalInstructions, jitEnabled_, executed>>
    /\ UNCHANGED <<fpVars, profVars, cacheVars, exprVars, specializerVars, queryVars,
                   callerVars, clearVars, dictVars>>

NextHotPath == \E taken \in BOOLEAN : JITMachineStep(taken)
SpecHotPath == Init /\ [][NextHotPath]_vars

SpecializerLines ==
    {TACLine(op, a, b) : op \in SpecializerOps, a \in LineOperands, b \in LineOperands}
CurrentContexts == WholeContexts \cup {<<LongContext, 0, Count(LongContext) - 1>>}
NextCompileCurrent ==
    \/ \E r \in CurrentContexts : compileContextRange(1, r[1], r[2], r[3])
    \/ \E o \in GenerateOutcomes : generateFunction(1, o)
    \/ storeRegion(1)
    \/ cleanupCompiledRegions
SpecCompileCurrent == Init /\ [][NextCompileCurrent]_vars

\* C35: no compiled region holds more instructions than
\* maxInstructionSequence, whichever entry point asked for the compilation.
C35_RegionWithinMaxSequence ==
    \A k \in DOMAIN compiledRegions_ :
       compiledRegions_[k].endLine - compiledRegions_[k].startLine + 1
          <= maxInstructionSequence

\* the lines the interpreter runs from currentLine until control first leaves
\* a region of straight-line code that ends at endLine
interpretedThrough(currentLine, endLine) ==
    [i \in 1..(endLine - currentLine + 1) |-> currentLine + i - 1]

\* C36: the compiled path taken from a line anywhere inside a region leaves
\* the state the interpreter would leave, run from that line until control
\* leaves the region: the lines from the current one to the region's end
\* have been executed and the instruction pointer is just past the region.
C36_CompiledPathEqualsInterpreter ==
    [][\A t \in Threads :
          (/\ pc[t] = "execute"
           /\ pc'[t] = "idle"
           /\ ret'[t].path = "compiled")
          => LET region == compiledRegions_[frame[t].bestFingerprint]
             IN /\ ret'[t].currentLine = region.endLine + 1
                /\ executed' = executed \o interpretedThrough(frame[t].currentLine,
                                                              region.endLine)]_vars

\* the profiler with an expression compiled more than once: a retry after a
\* failure, or a recompilation
NextRecompile ==
    \/ \E e \in ProfExprs, t \in Durations, now \in Timestamps, w \in Windows :
          recordExecution(e, t, now, w)
    \/ \E e \in ProfExprs, ok \in BOOLEAN, t \in CompileTimes :
          recordCompilationUpTo(MaxRecompilations, e, ok, t)
SpecRecompile == InitProfiler /\ [][NextRecompile]_vars

\* C37: the global counters agree with the profile states:
\* successful_compilations is the number of profiles in status JIT_COMPILED
\* and failed_compilations the number in status JIT_FAILED.
C37_CountersMatchStatuses ==
    /\ successful_compilations =
          Cardinality({f \in DOMAIN profiles : profiles[f].status = JIT_COMPILED})
    /\ failed_compilations =
          Cardinality({f \in DOMAIN profiles : profiles[f].status = JIT_FAILED})

\* C38: a cache hit returns a function compiled from the instructions that
\* were requested: whenever compileExpression finds the name in the cache,
\* the function it returns was compiled from the expression it was given.
C38_HitMatchesRequest ==
    last_eval.op = "compile" => last_eval.returned = last_eval.requested

(***************************************************************************)
(* Claims about Dictionary                                                 *)
(***************************************************************************)
\* the calls made on one dictionary: the next unused key is stored, key 0 is
\* stored again with either value, and the newest key or an absent one is
\* removed
NextDictionary ==
    \/ \E r \in {<<mSize, 0>>, <<0, 0>>, <<0, 1>>} : SetValue(r[1], r[2])
    \/ \E key \in {mSize - 1, mSize} \cap DictKeys : Remove(key)
SpecDictionary == Init /\ [][NextDictionary]_vars

\* the keys stored in the table, over all of its bins
storedKeys ==
    UNION {{mTable[b][j].key : j \in 1..Len(mTable[b])} : b \in 0..(mTableSize - 1)}

exactlyOnce(keys) ==
    /\ {keys[i] : i \in 1..Len(keys)} = storedKeys
    /\ \A i, j \in 1..Len(keys) : keys[i] = keys[j] => i = j

\* C39: after any SetValue and Remove calls, those that grow the table past
\* TABLE_SIZE bins included, Keys() and an iteration each return every
\* stored key exactly once, Count() keys in all.
C39_KeysComplete ==
    /\ exactlyOnce(Keys)
    /\ Len(Keys) = DictCount
    /\ exactlyOnce(iterated)
    /\ Len(iterated) = DictCount

====
